---- MODULE Spec2Model ----
(***************************************************************************)
(* Model of src/src/integration.rs: Integration<A>, the egui -> Vulkan     *)
(* backend.  The state is the struct's fields plus the device-side objects *)
(* the struct creates (images, views, allocations, descriptor sets, the    *)
(* temporaries of update_texture) and the result of the last call (the     *)
(* command buffer paint recorded, what was printed, whether it panicked).  *)
(*                                                                         *)
(* Numbers.  f32 values are modelled in fixed point: the integer V stands  *)
(* for the real V / FDen.  Every input the model draws is a multiple of a  *)
(* quarter, so every product the code forms is exact both here and in f32. *)
(* Pointers into a mapped buffer are modelled by their byte offset from    *)
(* the start of the mapping.                                               *)
(***************************************************************************)
EXTENDS Integers, Sequences, FiniteSets, TLC

----------------------------------------------------------------------------
(* Bounds of the model *)

\* texture ids egui hands out: Managed(0) .. Managed(MaxManaged - 1)
MaxManaged == 2
\* image/view/allocation triples the device can hold at once in the model
MaxTexObjects == 3
\* descriptor sets the model lets the pool hold at once (the pool's own
\* capacity is DescriptorPoolMaxSets)
MaxDescSets == 2
\* length of the user texture table the model explores
MaxUserTextures == 2
\* primitives per paint call
MaxPrims == 3
\* "set" entries per textures delta of SpecPatch; the textures deltas of the
\* other specifications have at most one
MaxSetEntries == 1
\* calls of update_swapchain in one behaviour
MaxSwapchainUpdates == 2

(* Program constants *)

\* fn vertex_buffer_size(): 1024 * 1024 * 4
VertexBufferSize == 4194304
\* fn index_buffer_size(): 1024 * 1024 * 2
IndexBufferSize == 2097152
\* size_of_val(&v_slice[0]): egui::epaint::Vertex is pos 2 x f32, uv 2 x f32,
\* color 4 x u8
VertexSize == 20
\* size_of_val(&i_slice[0]): u32
IndexSize == 4
\* .max_sets(1024)
DescriptorPoolMaxSets == 1024
\* fixed-point denominator of the modelled f32 values
FDen == 16

----------------------------------------------------------------------------
(* Values *)

\* Option<T>: None and Some(x)
None == <<>>
Some(x) == <<x>>

Managed(n) == [kind |-> "Managed", id |-> n]
User(n) == [kind |-> "User", id |-> n]

ManagedIds == {Managed(n) : n \in 0 .. (MaxManaged - 1)}
\* user ids a caller can name: every slot of the table and one beyond it
UserIds == {User(n) : n \in 0 .. MaxUserTextures}

TexObjIds == 0 .. (MaxTexObjects - 1)
DescSetIds == 0 .. (MaxDescSets - 1)

Min(S) == CHOOSE x \in S : \A y \in S : x <= y

Range(s) == {s[i] : i \in 1 .. Len(s)}
Max(S) == CHOOSE x \in S : \A y \in S : y <= x

\* AHashMap::insert: the entry for k is added or overwritten
MapInsert(m, k, v) == [x \in (DOMAIN m) \cup {k} |-> IF x = k THEN v ELSE m[x]]
\* AHashMap::remove_entry: the entry for k is dropped when there is one
MapRemove(m, k) == [x \in (DOMAIN m) \ {k} |-> m[x]]
EmptyMap == [x \in {} |-> None]

VARIABLES
    physical_width, physical_height, scale_factor,
    \* render_pass = [id, format]; pipeline = [id, render_pass];
    \* framebuffer_color_image_views = sequence of [id, image, format];
    \* framebuffers = sequence of [id, render_pass, attachment, width, height]
    render_pass, pipeline, framebuffer_color_image_views, framebuffers,
    \* lengths of vertex_buffers / vertex_buffer_allocations and of
    \* index_buffers / index_buffer_allocations
    vertex_buffers, index_buffers,
    \* length of descriptor_set_layouts
    descriptor_set_layouts,
    \* the render passes, pipelines, image views and framebuffers that have
    \* been created and not destroyed, and how many times update_swapchain
    \* has run
    live_surface, generation,
    texture_desc_sets, texture_images, texture_image_infos,
    texture_allocations, texture_image_views,
    user_textures,
    image_owner, live_image_views, live_allocations, pool_sets,
    live_staging, live_cmd_pools, live_fences,
    \* the layout of every live image of update_texture
    image_state,
    \* the sampler, layouts, descriptor pool, slot buffers and their
    \* allocations, and the shader modules, that have been created and not
    \* destroyed
    live_fixed,
    \* None, or Some(op): every call of the kind op fails on this device
    device_fault,
    cmds, v_written, i_written, last_call, panicked, reuse_of,
    texture_history,
    \* the managed handles that had a descriptor set when the draw loop of
    \* the last paint ran: after the frame's sets, before its frees
    known_at_draw,
    \* the device and allocator calls of the last operation that create,
    \* destroy or record something the model keeps, in the order made
    device_calls

vars == <<physical_width, physical_height, scale_factor,
          render_pass, pipeline, framebuffer_color_image_views, framebuffers,
          vertex_buffers, index_buffers, live_surface, generation,
          texture_desc_sets, texture_images, texture_image_infos,
          texture_allocations, texture_image_views,
          user_textures,
          image_owner, live_image_views, live_allocations, pool_sets,
          live_staging, live_cmd_pools, live_fences,
          image_state, live_fixed, device_fault, descriptor_set_layouts,
          cmds, v_written, i_written, last_call, panicked, reuse_of,
          texture_history, known_at_draw, device_calls>>

surface_vars == <<physical_width, physical_height, scale_factor,
                  render_pass, pipeline, framebuffer_color_image_views,
                  framebuffers, vertex_buffers, index_buffers,
                  live_surface, generation>>

cache_vars == <<texture_desc_sets, texture_images, texture_image_infos,
                texture_allocations, texture_image_views,
                image_owner, live_image_views, live_allocations,
                live_staging, live_cmd_pools, live_fences, image_state>>

fixed_vars == <<live_fixed, device_fault, descriptor_set_layouts>>

----------------------------------------------------------------------------
(* f32 arithmetic on the fixed-point values *)

\* `as i32` saturates at the ends of i32
I32Max == 2147483647

\* u32 as f32
FromInt(n) == n * FDen
\* a * b
FMul(a, b) == (a * b) \div FDen
\* f32::clamp(x, lo, hi); the caller has checked lo <= hi
FClamp(x, lo, hi) == IF x < lo THEN lo ELSE IF x > hi THEN hi ELSE x
\* f32::clamp asserts min <= max
ClampPanics(lo, hi) == lo > hi
\* truncation toward zero of a fixed-point value, as an integer
Trunc(x) == IF x >= 0 THEN x \div FDen ELSE -((-x) \div FDen)
\* f32::round: to the nearest integer, halves away from zero
FRound(x) ==
    IF x >= 0 THEN ((2 * x + FDen) \div (2 * FDen)) * FDen
    ELSE -(((2 * (-x) + FDen) \div (2 * FDen)) * FDen)
\* f32 as i32: toward zero, saturating
AsI32(x) ==
    LET q == Trunc(x)
    IN  IF q > I32Max THEN I32Max ELSE IF q < -I32Max - 1 THEN -I32Max - 1 ELSE q
\* f32 as u32: toward zero, saturating: a negative value gives 0.  (The
\* upper end, u32::MAX, is beyond every value the model forms.)
AsU32(x) ==
    LET q == Trunc(x)
    IN  IF q < 0 THEN 0 ELSE q

Pos2(x, y) == [x |-> x, y |-> y]
Rect(x0, y0, x1, y1) == [min |-> Pos2(x0, y0), max |-> Pos2(x1, y1)]

\* clip_rect.min scaled, then clamped to the surface (lines 714-722)
ScissorMin(clip_rect, scale, width, height) ==
    Pos2(FClamp(FMul(clip_rect.min.x, scale), 0, FromInt(width)),
         FClamp(FMul(clip_rect.min.y, scale), 0, FromInt(height)))

\* mutant of ScissorMax: the max corner is clamped below but not to the surface
ScissorMaxUnclamped(clip_rect, scale, width, height) ==
    LET min == ScissorMin(clip_rect, scale, width, height)
        mx  == FMul(clip_rect.max.x, scale)
        my  == FMul(clip_rect.max.y, scale)
    IN  Pos2(IF mx < min.x THEN min.x ELSE mx, IF my < min.y THEN min.y ELSE my)

\* clip_rect.max scaled, then clamped to [min, surface] (lines 723-731)
ScissorMax(clip_rect, scale, width, height) ==
    LET min == ScissorMin(clip_rect, scale, width, height)
    IN  Pos2(FClamp(FMul(clip_rect.max.x, scale), min.x, FromInt(width)),
             FClamp(FMul(clip_rect.max.y, scale), min.y, FromInt(height)))

\* the vk::Rect2D handed to cmd_set_scissor (lines 735-745)
ScissorRect(clip_rect, scale, width, height) ==
    LET min == ScissorMin(clip_rect, scale, width, height)
        max == ScissorMax(clip_rect, scale, width, height)
    IN  [x      |-> AsI32(FRound(min.x)),
         y      |-> AsI32(FRound(min.y)),
         width  |-> AsU32(FRound(max.x) - min.x),
         height |-> AsU32(FRound(max.y) - min.y)]

----------------------------------------------------------------------------
(* The texture cache: update_texture and the "free" loop of paint.  The    *)
(* operators work on a record c of the fields and device objects they       *)
(* touch; Paint copies the final record into the variables.                *)

\* tables = the five per-handle tables, device = the live objects, the state
\* of the live images and the fault of the device
CacheOf(tables, device) ==
    [desc_sets |-> tables[1], images |-> tables[2], infos |-> tables[3],
     allocs |-> tables[4], views |-> tables[5],
     image_owner |-> device[1], live_views |-> device[2],
     live_allocs |-> device[3], pool_sets |-> device[4],
     staging |-> device[5], cmd_pools |-> device[6], fences |-> device[7],
     image_state |-> device[8], fault |-> device[9],
     panic |-> None, full |-> FALSE, calls |-> <<>>]

\* a call on the device or the allocator, with the object it is about
DeviceCall(op, obj) == [op |-> op, obj |-> obj]

\* positions in a sequence of calls of the calls with op in ops
CallsAt(calls, ops) == {i \in 1 .. Len(calls) : calls[i].op \in ops}

\* a call that returned Err: the caller's unwrap() or expect() panics
FailedCall(op) == [op |-> op, obj |-> -1, failed |-> TRUE]
IsFailed(call) == "failed" \in DOMAIN call

\* mutant of Step: the Err of a failed call is dropped and the caller goes
\* on as if the object had been created
StepContinuing(c, op, done) ==
    IF c.panic # None THEN c
    ELSE IF c.fault = Some(op)
    THEN [done EXCEPT !.calls = Append(c.calls, FailedCall(op))]
    ELSE done

\* one fallible call followed by unwrap() or expect(): `done` is the state
\* after the call when it returns Ok; on Err the panic leaves what was done
\* before it.  Nothing runs after a panic.
Step(c, op, done) ==
    IF c.panic # None THEN c
    ELSE IF c.fault = Some(op)
    THEN [c EXCEPT !.panic = Some(op), !.calls = Append(@, FailedCall(op))]
    ELSE done

\* ids of the image/view/allocation triples none of whose parts is live
FreeTexObjs(c) ==
    TexObjIds \ ((DOMAIN c.image_owner) \cup c.live_views \cup c.live_allocs)
FreeDescSets(c) == DescSetIds \ c.pool_sets

\* vk::ImageCreateInfo of lines 855-875, as far as it varies
ImageInfo(delta) ==
    [width |-> delta.width, height |-> delta.height, format |-> "R8G8B8A8_SRGB"]

\* line 805-812.  The temporaries of a call are numbered by the count of
\* their kind that is live when the call starts.
CreateCommandPool(c) ==
    Step(c, "create_command_pool",
         [c EXCEPT !.cmd_pools = @ + 1,
                   !.calls = Append(@, DeviceCall("create_command_pool", c.cmd_pools))])

\* lines 813-823
AllocateCommandBuffer(c) ==
    Step(c, "allocate_command_buffers",
         [c EXCEPT !.calls = Append(@, DeviceCall("allocate_command_buffers",
                                                  c.cmd_pools - 1))])

\* lines 824-825
CreateFence(c) ==
    Step(c, "create_fence",
         [c EXCEPT !.fences = @ + 1,
                   !.calls = Append(@, DeviceCall("create_fence", c.fences))])

\* lines 827-832
CreateStagingBuffer(c) ==
    Step(c, "create_buffer",
         [c EXCEPT !.staging = @ + 1,
                   !.calls = Append(@, DeviceCall("create_buffer", c.staging))])

\* lines 833-849
AllocateStaging(c) ==
    Step(c, "allocate_staging",
         [c EXCEPT !.calls = Append(@, DeviceCall("allocate_staging", c.staging - 1))])

\* lines 805-849: command pool, command buffer, fence, staging buffer and
\* its allocation
CreateTemporaries(c) ==
    AllocateStaging(CreateStagingBuffer(CreateFence(
        AllocateCommandBuffer(CreateCommandPool(c)))))

\* lines 854-876: the image t
CreateTextureImage(c, texture_id, t) ==
    Step(c, "create_image",
         [c EXCEPT !.image_owner = MapInsert(@, t, texture_id),
                   !.image_state = MapInsert(@, t, "UNDEFINED"),
                   !.calls = Append(@, DeviceCall("create_image", t))])

\* lines 877-893: its allocation, and the create info stored under the handle
AllocateTextureImage(c, texture_id, delta, t) ==
    Step(c, "allocate",
         [c EXCEPT !.live_allocs = @ \cup {t},
                   !.infos = MapInsert(@, texture_id, ImageInfo(delta)),
                   !.calls = Append(@, DeviceCall("allocate", t))])

\* lines 894-910: the image view
CreateTextureImageView(c, t) ==
    Step(c, "create_image_view",
         [c EXCEPT !.live_views = @ \cup {t},
                   !.calls = Append(@, DeviceCall("create_image_view", t))])

\* lines 854-910: the image t, its allocation, the stored create info of the
\* handle, the image view
CreateImage(c, texture_id, delta, t) ==
    CreateTextureImageView(
        AllocateTextureImage(CreateTextureImage(c, texture_id, t), texture_id, delta, t),
        t)

\* fn insert_image_memory_barrier, as recorded by update_texture
ImageBarrier(image, old_layout, new_layout) ==
    [op |-> "pipeline_barrier", obj |-> image,
     old_layout |-> old_layout, new_layout |-> new_layout]

\* what one recorded transfer command does to the layouts of the images
\* when the queue executes it: a barrier leaves its image in new_layout
ExecuteCommand(states, cmd) ==
    IF cmd.op = "pipeline_barrier"
    THEN [states EXCEPT ![cmd.obj] = cmd.new_layout]
    ELSE states

RECURSIVE ExecuteCommands(_, _, _)
ExecuteCommands(states, recorded, i) ==
    IF i > Len(recorded) THEN states
    ELSE ExecuteCommands(ExecuteCommand(states, recorded[i]), recorded, i + 1)

\* mutant of SubmitAndWait: the command buffer is submitted and the fence is
\* not waited for
SubmitWithoutWait(c, recorded, f) ==
    IF c.panic # None THEN c
    ELSE [c EXCEPT !.image_state = ExecuteCommands(@, recorded, 1),
                   !.calls = @ \o recorded \o << DeviceCall("queue_submit", f) >>]

\* lines 985-997 and 1122-1130: the recorded commands are submitted with the
\* fence f and wait_for_fences(.., u64::MAX) returns once the queue has
\* executed them
SubmitAndWait(c, recorded, f) ==
    IF c.panic # None THEN c
    ELSE [c EXCEPT !.image_state = ExecuteCommands(@, recorded, 1),
                   !.calls = @ \o recorded
                               \o << DeviceCall("queue_submit", f),
                                     DeviceCall("wait_for_fences", f) >>]

\* lines 919-983: the commands that fill the new image t from the staging
\* buffer b
UploadCommands(t, b, delta) ==
    << ImageBarrier(t, "UNDEFINED", "TRANSFER_DST_OPTIMAL"),
       [op |-> "copy_buffer_to_image", obj |-> t, buffer |-> b,
        image_layout |-> "TRANSFER_DST_OPTIMAL",
        offset |-> <<0, 0, 0>>, extent |-> <<delta.width, delta.height, 1>>],
       ImageBarrier(t, "TRANSFER_DST_OPTIMAL", "SHADER_READ_ONLY_OPTIMAL") >>

\* mutant of BlitRegion: the destination region is the whole of the
\* existing image
BlitRegionWholeDestination(info, existing_info, pos, delta) ==
    [src_offsets |-> << <<0, 0, 0>>, <<info.width, info.height, 1>> >>,
     dst_offsets |-> << <<0, 0, 0>>,
                        <<existing_info.width, existing_info.height, 1>> >>]

\* lines 1058-1091: the vk::ImageBlit.  info is the entry of
\* texture_image_infos read at line 1005, existing_info the entry the handle
\* had when update_texture was called (the code does not use it).
BlitRegion(info, existing_info, pos, delta) ==
    [src_offsets |-> << <<0, 0, 0>>, <<info.width, info.height, 1>> >>,
     dst_offsets |-> << <<pos[1], pos[2], 0>>,
                        <<pos[1] + delta.width, pos[2] + delta.height, 1>> >>]

\* lines 1018-1121: the commands of a patch of the image `existing` from the
\* temporary image t
PatchCommands(existing, t, region) ==
    << ImageBarrier(existing, "UNDEFINED", "TRANSFER_DST_OPTIMAL"),
       ImageBarrier(t, "SHADER_READ_ONLY_OPTIMAL", "TRANSFER_SRC_OPTIMAL"),
       [op |-> "blit_image", obj |-> existing, src |-> t,
        src_layout |-> "TRANSFER_SRC_OPTIMAL",
        dst_layout |-> "TRANSFER_DST_OPTIMAL",
        src_offsets |-> region.src_offsets, dst_offsets |-> region.dst_offsets,
        filter |-> "NEAREST"],
       ImageBarrier(existing, "TRANSFER_DST_OPTIMAL", "SHADER_READ_ONLY_OPTIMAL") >>

\* lines 1132-1135: the temporary image of a patch is destroyed
DestroyTemporaryImage(c, t) ==
    [c EXCEPT !.image_owner = MapRemove(@, t),
              !.image_state = MapRemove(@, t),
              !.live_views  = @ \ {t},
              !.live_allocs = @ \ {t},
              !.calls       = @ \o << DeviceCall("destroy_image", t),
                                      DeviceCall("destroy_image_view", t),
                                      DeviceCall("free", t) >>]

\* lines 1175-1181: the temporaries this call created are destroyed
Cleanup(c) ==
    [c EXCEPT !.staging = @ - 1, !.cmd_pools = @ - 1, !.fences = @ - 1,
              !.calls = @ \o << DeviceCall("destroy_buffer", c.staging - 1),
                                DeviceCall("free_staging", c.staging - 1),
                                DeviceCall("destroy_command_pool", c.cmd_pools - 1),
                                DeviceCall("destroy_fence", c.fences - 1) >>]

\* lines 1143-1173: a descriptor set is allocated from the pool, the new
\* view and the sampler of the instance are written into it
\* (update_descriptor_sets, 1154-1166) and the image, allocation, view and
\* set are stored under the handle.  On a full pool allocate_descriptor_sets
\* returns Err and unwrap() panics at line 1151.
RegisterNewTexture(c, texture_id, t) ==
    IF Cardinality(c.pool_sets) >= DescriptorPoolMaxSets
    THEN [c EXCEPT !.panic = Some("allocate_descriptor_sets"),
                   !.calls = Append(@, FailedCall("allocate_descriptor_sets"))]
    ELSE IF FreeDescSets(c) = {}
    THEN [c EXCEPT !.full = TRUE]
    ELSE LET d == Min(FreeDescSets(c))
         IN  Step(c, "allocate_descriptor_sets",
                  [c EXCEPT !.pool_sets = @ \cup {d},
                            !.images    = MapInsert(@, texture_id, t),
                            !.allocs    = MapInsert(@, texture_id, t),
                            !.views     = MapInsert(@, texture_id, t),
                            !.desc_sets = MapInsert(@, texture_id, d),
                            !.calls     = @ \o
                                << DeviceCall("allocate_descriptor_sets", d),
                                   [op |-> "update_descriptor_sets", obj |-> d,
                                    image_view |-> t,
                                    image_layout |-> "SHADER_READ_ONLY_OPTIMAL",
                                    sampler |-> [kind |-> "sampler", gen |-> 0,
                                                 n |-> 0]] >>])

\* lines 1001-1136: the patch of the existing image of texture_id from the
\* temporary image t, with the command pool p and the fence f reset and used
\* a second time
PatchExisting(c, existing_info, texture_id, delta, t, p, f) ==
    LET existing == c.images[texture_id]
        region   == BlitRegion(c.infos[texture_id], existing_info, delta.pos, delta)
        c1 == [c EXCEPT !.calls = @ \o << DeviceCall("reset_command_pool", p),
                                          DeviceCall("reset_fences", f) >>]
        c2 == SubmitAndWait(c1, PatchCommands(existing, t, region), f)
    IN  DestroyTemporaryImage(c2, t)

\* mutant of UpdateTexture: a set entry with an offset replaces the record of
\* the handle by the new image instead of patching the existing one
UpdateTextureReplacing(c, texture_id, delta) ==
    IF FreeTexObjs(c) = {}
    THEN [c EXCEPT !.full = TRUE]
    ELSE LET t  == Min(FreeTexObjs(c))
             c1 == CreateImage(CreateTemporaries(c), texture_id, delta, t)
             c2 == SubmitAndWait(c1, UploadCommands(t, c.staging, delta), c.fences)
             c3 == RegisterNewTexture(c2, texture_id, t)
         IN  IF c3.panic # None \/ c3.full THEN c3 ELSE Cleanup(c3)

\* fn update_texture (lines 785-1182); delta = [pos, width, height]
UpdateTexture(c, texture_id, delta) ==
    IF FreeTexObjs(c) = {}
    THEN [c EXCEPT !.full = TRUE]
    ELSE LET t  == Min(FreeTexObjs(c))
             c1 == CreateImage(CreateTemporaries(c), texture_id, delta, t)
             c2 == SubmitAndWait(c1, UploadCommands(t, c.staging, delta), c.fences)
         IN  IF c2.panic # None THEN c2
             ELSE IF delta.pos # None
             THEN IF texture_id \in DOMAIN c2.images
                  THEN Cleanup(PatchExisting(c2, c.infos[texture_id], texture_id,
                                             delta, t, c.cmd_pools, c.fences))
                  ELSE c2
             ELSE LET c3 == RegisterNewTexture(c2, texture_id, t)
                  IN  IF c3.panic # None \/ c3.full THEN c3 ELSE Cleanup(c3)

\* paint, lines 539-541: the set entries in order
RECURSIVE ApplySets(_, _, _)
ApplySets(c, set, i) ==
    IF i > Len(set) \/ c.panic # None \/ c.full
    THEN c
    ELSE ApplySets(UpdateTexture(c, set[i].id, set[i].delta), set, i + 1)

\* lines 769-781: the calls that destroy what the tables hold for id
FreeCalls(c, id) ==
    (IF id \in DOMAIN c.images
     THEN << DeviceCall("destroy_image", c.images[id]) >> ELSE <<>>)
    \o (IF id \in DOMAIN c.views
        THEN << DeviceCall("destroy_image_view", c.views[id]) >> ELSE <<>>)
    \o (IF id \in DOMAIN c.allocs
        THEN << DeviceCall("free", c.allocs[id]) >> ELSE <<>>)

\* mutant of FreeTexture: the image of the handle is destroyed without
\* looking whether the table had one
FreeTextureDestroysAbsent(c, id) ==
    LET img  == IF id \in DOMAIN c.images THEN {c.images[id]} ELSE {}
        view == IF id \in DOMAIN c.views THEN {c.views[id]} ELSE {}
        al   == IF id \in DOMAIN c.allocs THEN {c.allocs[id]} ELSE {}
    IN  [c EXCEPT !.desc_sets   = MapRemove(@, id),
                  !.infos       = MapRemove(@, id),
                  !.images      = MapRemove(@, id),
                  !.image_owner = [x \in (DOMAIN @) \ img |-> @[x]],
                  !.image_state = [x \in (DOMAIN @) \ img |-> @[x]],
                  !.views       = MapRemove(@, id),
                  !.live_views  = @ \ view,
                  !.allocs      = MapRemove(@, id),
                  !.live_allocs = @ \ al,
                  !.calls       = IF id \in DOMAIN c.images
                                  THEN @ \o FreeCalls(c, id)
                                  ELSE Append(@, DeviceCall("destroy_image", -1))]

\* mutant of FreeTexture: the stored create info of the handle is kept
FreeTextureKeepInfo(c, id) ==
    LET img  == IF id \in DOMAIN c.images THEN {c.images[id]} ELSE {}
        view == IF id \in DOMAIN c.views THEN {c.views[id]} ELSE {}
        al   == IF id \in DOMAIN c.allocs THEN {c.allocs[id]} ELSE {}
    IN  [c EXCEPT !.desc_sets   = MapRemove(@, id),
                  !.images      = MapRemove(@, id),
                  !.image_owner = [x \in (DOMAIN @) \ img |-> @[x]],
                  !.image_state = [x \in (DOMAIN @) \ img |-> @[x]],
                  !.views       = MapRemove(@, id),
                  !.live_views  = @ \ view,
                  !.allocs      = MapRemove(@, id),
                  !.live_allocs = @ \ al,
                  !.calls       = @ \o FreeCalls(c, id)]

\* paint, lines 767-781: one id of textures_delta.free
FreeTexture(c, id) ==
    LET img  == IF id \in DOMAIN c.images THEN {c.images[id]} ELSE {}
        view == IF id \in DOMAIN c.views THEN {c.views[id]} ELSE {}
        al   == IF id \in DOMAIN c.allocs THEN {c.allocs[id]} ELSE {}
    IN  [c EXCEPT !.desc_sets   = MapRemove(@, id),
                  !.infos       = MapRemove(@, id),
                  !.images      = MapRemove(@, id),
                  !.image_owner = [x \in (DOMAIN @) \ img |-> @[x]],
                  !.image_state = [x \in (DOMAIN @) \ img |-> @[x]],
                  !.views       = MapRemove(@, id),
                  !.live_views  = @ \ view,
                  !.allocs      = MapRemove(@, id),
                  !.live_allocs = @ \ al,
                  !.calls       = @ \o FreeCalls(c, id)]

\* paint, lines 766-782
RECURSIVE ApplyFrees(_, _, _)
ApplyFrees(c, free, i) ==
    IF i > Len(free) THEN c
    ELSE ApplyFrees(FreeTexture(c, free[i]), free, i + 1)

----------------------------------------------------------------------------
(* The draw loop of paint.  r is the recording state: the command buffer,  *)
(* the two write cursors (byte offsets into the slot's mappings), what has *)
(* been copied into the mappings, the base offsets, what was printed.      *)

Mesh(clip_rect, texture_id, vertices, indices) ==
    [clip_rect |-> clip_rect, texture_id |-> texture_id,
     vertices |-> vertices, indices |-> indices]

\* lines 660-686: the descriptor set of a mesh's texture id
ResolveTexture(env, texture_id) ==
    IF texture_id.kind = "User"
    THEN IF texture_id.id >= Len(env.user_textures)
         THEN [kind |-> "panic", why |-> "index out of bounds"]
         ELSE IF env.user_textures[texture_id.id + 1] # None
         THEN [kind |-> "bind", set |-> env.user_textures[texture_id.id + 1][1]]
         ELSE [kind |-> "skip",
               why |-> "This UserTexture has already been unregistered"]
    ELSE IF texture_id \in DOMAIN env.desc_sets
         THEN [kind |-> "bind", set |-> env.desc_sets[texture_id]]
         ELSE [kind |-> "panic", why |-> "called Option::unwrap() on a None value"]

\* mutant of BufferOverflow: the index region is not checked
BufferOverflowVertexOnly(v_next, i_next) == v_next >= VertexBufferSize

\* lines 699-700: the test that guards the two copies
BufferOverflow(v_next, i_next) ==
    v_next >= VertexBufferSize \/ i_next >= IndexBufferSize

\* mutant of DrawIndexed: the draw takes the number of vertices as its
\* index count
DrawIndexedVertexCount(mesh, r) ==
    [op |-> "draw_indexed",
     index_count |-> mesh.vertices,
     instance_count |-> 1,
     first_index |-> r.index_base,
     vertex_offset |-> r.vertex_base,
     first_instance |-> 0]

\* mutant of DrawIndexed: every draw reads from the start of the buffers
DrawIndexedFromZero(mesh, r) ==
    [op |-> "draw_indexed",
     index_count |-> mesh.indices,
     instance_count |-> 1,
     first_index |-> 0,
     vertex_offset |-> 0,
     first_instance |-> 0]

\* lines 747-755: cmd_draw_indexed(cb, indices.len(), 1, index_base,
\* vertex_base, 0)
DrawIndexed(mesh, r) ==
    [op |-> "draw_indexed",
     index_count |-> mesh.indices,
     instance_count |-> 1,
     first_index |-> r.index_base,
     vertex_offset |-> r.vertex_base,
     first_instance |-> 0]

\* mutant of EmptyPrimitive: only the vertex list is looked at
EmptyPrimitiveVerticesOnly(mesh) == mesh.vertices = 0

\* lines 655-657: mesh.vertices.is_empty() || mesh.indices.is_empty()
EmptyPrimitive(mesh) == mesh.vertices = 0 \/ mesh.indices = 0

\* lines 651-758: one iteration of the loop, for the mesh at position k of
\* clipped_meshes
PaintMesh(r, env, mesh, k) ==
    IF EmptyPrimitive(mesh)
    THEN r
    ELSE
    LET tex == ResolveTexture(env, mesh.texture_id)
    IN  IF tex.kind = "panic" THEN [r EXCEPT !.panic = Some(tex.why)]
        ELSE IF tex.kind = "skip" THEN [r EXCEPT !.log = Append(@, tex.why)]
        ELSE
        LET bound  == Append(r.cmds, [op |-> "bind_descriptor_sets", set |-> tex.set])
            v_next == r.v_ptr + mesh.vertices * VertexSize
            i_next == r.i_ptr + mesh.indices * IndexSize
            min    == ScissorMin(mesh.clip_rect, env.scale_factor,
                                 env.physical_width, env.physical_height)
        IN  IF BufferOverflow(v_next, i_next)
            THEN [r EXCEPT !.cmds = bound, !.panic = Some("egui paint out of memory")]
            ELSE IF ClampPanics(0, FromInt(env.physical_width))
                    \/ ClampPanics(0, FromInt(env.physical_height))
                    \/ ClampPanics(min.x, FromInt(env.physical_width))
                    \/ ClampPanics(min.y, FromInt(env.physical_height))
            THEN [r EXCEPT !.cmds = bound,
                           !.v_written = Append(@, [src |-> k, off |-> r.v_ptr,
                                                    len |-> mesh.vertices]),
                           !.i_written = Append(@, [src |-> k, off |-> r.i_ptr,
                                                    len |-> mesh.indices]),
                           !.v_ptr = v_next, !.i_ptr = i_next,
                           !.panic = Some("assertion failed: min <= max")]
            ELSE [r EXCEPT
                    !.cmds = bound \o
                        << [op |-> "set_scissor",
                            rect |-> ScissorRect(mesh.clip_rect, env.scale_factor,
                                                 env.physical_width,
                                                 env.physical_height)],
                           DrawIndexed(mesh, r) >>,
                    !.v_written = Append(@, [src |-> k, off |-> r.v_ptr,
                                             len |-> mesh.vertices]),
                    !.i_written = Append(@, [src |-> k, off |-> r.i_ptr,
                                             len |-> mesh.indices]),
                    !.v_ptr = v_next, !.i_ptr = i_next,
                    !.vertex_base = @ + mesh.vertices,
                    !.index_base = @ + mesh.indices]

\* mutant of PaintMeshes: the list is walked from its last mesh to its first
RECURSIVE PaintMeshesBackward(_, _, _, _)
PaintMeshesBackward(r, env, clipped_meshes, k) ==
    IF k > Len(clipped_meshes) \/ r.panic # None
    THEN r
    ELSE LET j == Len(clipped_meshes) + 1 - k
         IN  PaintMeshesBackward(PaintMesh(r, env, clipped_meshes[j], j), env,
                                 clipped_meshes, k + 1)

\* lines 646-759: the loop over clipped_meshes, from position k on; a panic
\* ends it
RECURSIVE PaintMeshes(_, _, _, _)
PaintMeshes(r, env, clipped_meshes, k) ==
    IF k > Len(clipped_meshes) \/ r.panic # None
    THEN r
    ELSE PaintMeshes(PaintMesh(r, env, clipped_meshes[k], k), env,
                     clipped_meshes, k + 1)

\* lines 576-641: begin the render pass and bind the slot's resources.  The
\* two push constants are physical size / scale_factor, kept as the pair.
BeginCommands(index, env) ==
    << [op |-> "begin_render_pass", framebuffer |-> index,
        render_pass |-> env.render_pass.id,
        target |-> env.framebuffers[index + 1].id,
        width |-> env.physical_width, height |-> env.physical_height],
       [op |-> "bind_pipeline", pipeline |-> env.pipeline.id],
       [op |-> "bind_vertex_buffers", buffer |-> index, offset |-> 0],
       [op |-> "bind_index_buffer", buffer |-> index, offset |-> 0],
       [op |-> "set_viewport", width |-> env.physical_width,
        height |-> env.physical_height],
       [op |-> "push_constants", offset |-> 0,
        num |-> FromInt(env.physical_width), den |-> env.scale_factor],
       [op |-> "push_constants", offset |-> 4,
        num |-> FromInt(env.physical_height), den |-> env.scale_factor] >>

\* lines 543-574 and 644-645: cursors at the start of the mappings, bases 0
StartRecording(index, env) ==
    [cmds |-> BeginCommands(index, env),
     v_ptr |-> 0, i_ptr |-> 0, v_written |-> <<>>, i_written |-> <<>>,
     vertex_base |-> 0, index_base |-> 0, log |-> <<>>, panic |-> None]

\* a paint that panicked before it recorded anything: in update_texture, or
\* at lines 543, 569 or 582 on an index beyond the slot buffers or the
\* framebuffers
Aborted(why) ==
    [cmds |-> <<>>,
     v_ptr |-> 0, i_ptr |-> 0, v_written |-> <<>>, i_written |-> <<>>,
     vertex_base |-> 0, index_base |-> 0, log |-> <<>>, panic |-> why]

----------------------------------------------------------------------------
(* The surface objects: render pass, pipeline, one image view and one       *)
(* framebuffer per swapchain image.  An object is named by its kind, the    *)
(* number of update_swapchain calls before its creation and its position.   *)

SurfaceObj(kind, gen, n) == [kind |-> kind, gen |-> gen, n |-> n]

\* the surface format Integration::new is given
DefaultFormat == "B8G8R8A8_UNORM"

\* lines 125-152 and 1212-1239
CreateRenderPass(gen, format) ==
    [id |-> SurfaceObj("render_pass", gen, 0), format |-> format]

\* lines 179-198 and 1247-1266: position, uv and color of a vertex
VertexAttributes ==
    << [location |-> 0, binding |-> 0, offset |-> 0, format |-> "R32G32_SFLOAT"],
       [location |-> 1, binding |-> 0, offset |-> 8, format |-> "R32G32_SFLOAT"],
       [location |-> 2, binding |-> 0, offset |-> 16, format |-> "R8G8B8A8_UNORM"] >>

\* lines 257-266 and 1331-1340: the blend state of the one color attachment
BlendState ==
    [blend_enable |-> TRUE, color_write_mask |-> "RGBA",
     src_color_blend_factor |-> "ONE",
     dst_color_blend_factor |-> "ONE_MINUS_SRC_ALPHA"]

\* lines 172-266: the fixed-function state of the pipeline Integration::new
\* creates; the stride is 4 * size_of f32 + 4 * size_of u8
NewPipelineConfig ==
    [stride |-> 4 * 4 + 4 * 1,
     attributes |-> VertexAttributes,
     depth_test_enable |-> FALSE,
     depth_write_enable |-> FALSE,
     depth_compare_op |-> "ALWAYS",
     blend |-> BlendState]

\* lines 1243-1340: the fixed-function state of the pipeline update_swapchain
\* creates; the stride is 5 * size_of f32
SwapchainPipelineConfig ==
    [stride |-> 5 * 4,
     attributes |-> VertexAttributes,
     depth_test_enable |-> TRUE,
     depth_write_enable |-> TRUE,
     depth_compare_op |-> "LESS_OR_EQUAL",
     blend |-> BlendState]

\* lines 155-323 and 1242-1381: the pipeline is created for the render pass
CreatePipeline(gen, rp) ==
    [id |-> SurfaceObj("pipeline", gen, 0), render_pass |-> rp.id,
     config |-> IF gen = 0 THEN NewPipelineConfig ELSE SwapchainPipelineConfig]

\* lines 326-345 and 1384-1405: one view per swapchain image
CreateImageViews(gen, swap_images, format) ==
    [k \in 1 .. swap_images |->
        [id |-> SurfaceObj("image_view", gen, k - 1), image |-> k - 1,
         format |-> format]]

\* lines 348-364 and 1407-1424: one framebuffer per view
CreateFramebuffers(gen, rp, views, width, height) ==
    [k \in 1 .. Len(views) |->
        [id |-> SurfaceObj("framebuffer", gen, k - 1), render_pass |-> rp.id,
         attachment |-> views[k].id, width |-> width, height |-> height]]

CurrentSurface ==
    [render_pass |-> render_pass, pipeline |-> pipeline,
     views |-> framebuffer_color_image_views, framebuffers |-> framebuffers,
     live |-> live_surface, gen |-> generation, calls |-> <<>>]

\* the objects a sequence of calls has created and not destroyed
LiveAfterCalls(calls) ==
    {calls[i].obj : i \in {j \in 1 .. Len(calls) :
                              ~IsFailed(calls[j])
                              /\ calls[j].op # "destroy_shader_module"}}
        \ {calls[i].obj : i \in CallsAt(calls, {"destroy_shader_module"})}

SurfaceKinds == {"render_pass", "pipeline", "image_view", "framebuffer"}

\* the calls that create the objects of a surface record, in the order of
\* lines 1212-1424: the vertex and the fragment shader module are created
\* after the render pass (1277, 1290) and destroyed when
\* create_graphics_pipelines has returned (1376, 1378)
CreateCalls(rp, pl, views, fbs) ==
    << DeviceCall("create_render_pass", rp.id),
       DeviceCall("create_shader_module", SurfaceObj("shader_module", rp.id.gen, 0)),
       DeviceCall("create_shader_module", SurfaceObj("shader_module", rp.id.gen, 1)),
       DeviceCall("create_graphics_pipelines", pl.id),
       DeviceCall("destroy_shader_module", SurfaceObj("shader_module", rp.id.gen, 0)),
       DeviceCall("destroy_shader_module", SurfaceObj("shader_module", rp.id.gen, 1)) >>
    \o [k \in 1 .. Len(views) |-> DeviceCall("create_image_view", views[k].id)]
    \o [k \in 1 .. Len(fbs) |-> DeviceCall("create_framebuffer", fbs[k].id)]

\* lines 1196-1205: the calls that destroy the objects of s
DestroyCalls(s) ==
    << DeviceCall("destroy_render_pass", s.render_pass.id),
       DeviceCall("destroy_pipeline", s.pipeline.id) >>
    \o [k \in 1 .. Len(s.views) |-> DeviceCall("destroy_image_view", s.views[k].id)]
    \o [k \in 1 .. Len(s.framebuffers) |->
           DeviceCall("destroy_framebuffer", s.framebuffers[k].id)]

CallObjs(calls) == {calls[i].obj : i \in 1 .. Len(calls)}

\* mutant of RecreateSurface: the old pipeline is kept
RecreateSurfaceKeepPipeline(s, width, height, swapchain, surface_format) ==
    LET gen   == s.gen + 1
        rp    == CreateRenderPass(gen, surface_format.format)
        views == CreateImageViews(gen, swapchain.images, surface_format.format)
        fbs   == CreateFramebuffers(gen, rp, views, width, height)
        gone  == SelectSeq(DestroyCalls(s), LAMBDA c : c.op # "destroy_pipeline")
        made  == SelectSeq(CreateCalls(rp, s.pipeline, views, fbs),
                           LAMBDA c : c.op # "create_graphics_pipelines")
    IN  [render_pass |-> rp, pipeline |-> s.pipeline, views |-> views,
         framebuffers |-> fbs,
         live |-> (s.live \ CallObjs(gone))
                     \cup {o \in LiveAfterCalls(made) : o.kind \in SurfaceKinds},
         modules |-> {o \in LiveAfterCalls(made) : o.kind = "shader_module"},
         gen |-> gen, calls |-> gone \o made]

\* mutant of RecreateSurface: the new views and framebuffers are added to
\* the old ones
RecreateSurfaceAppending(s, width, height, swapchain, surface_format) ==
    LET gen   == s.gen + 1
        rp    == CreateRenderPass(gen, surface_format.format)
        pl    == CreatePipeline(gen, rp)
        views == CreateImageViews(gen, swapchain.images, surface_format.format)
        fbs   == CreateFramebuffers(gen, rp, views, width, height)
        gone  == SubSeq(DestroyCalls(s), 1, 2)
        made  == CreateCalls(rp, pl, views, fbs)
    IN  [render_pass |-> rp, pipeline |-> pl, views |-> s.views \o views,
         framebuffers |-> s.framebuffers \o fbs,
         live |-> (s.live \ CallObjs(gone))
                     \cup {o \in LiveAfterCalls(made) : o.kind \in SurfaceKinds},
         modules |-> {o \in LiveAfterCalls(made) : o.kind = "shader_module"},
         gen |-> gen, calls |-> gone \o made]

\* update_swapchain, lines 1195-1424: the stored objects are destroyed, then
\* a render pass of the new format, a pipeline for it, and a view and a
\* framebuffer of the new size per image of the swapchain are created
RecreateSurface(s, width, height, swapchain, surface_format) ==
    LET gen   == s.gen + 1
        rp    == CreateRenderPass(gen, surface_format.format)
        pl    == CreatePipeline(gen, rp)
        views == CreateImageViews(gen, swapchain.images, surface_format.format)
        fbs   == CreateFramebuffers(gen, rp, views, width, height)
        gone  == DestroyCalls(s)
        made  == CreateCalls(rp, pl, views, fbs)
    IN  [render_pass |-> rp, pipeline |-> pl, views |-> views,
         framebuffers |-> fbs,
         live |-> (s.live \ CallObjs(gone))
                     \cup {o \in LiveAfterCalls(made) : o.kind \in SurfaceKinds},
         modules |-> {o \in LiveAfterCalls(made) : o.kind = "shader_module"},
         gen |-> gen, calls |-> gone \o made]

\* the kinds of creation call update_swapchain makes, lines 1212-1424
SurfaceCreateOps ==
    {"create_render_pass", "create_shader_module", "create_graphics_pipelines",
     "create_image_view", "create_framebuffer"}

\* position in the creation calls `made` of the first call that fails when
\* every call of kind op fails
FirstFailing(made, op) == Min(CallsAt(made, {op}))

\* update_swapchain when the creation calls of kind op return Err: ok is what
\* the call does when nothing fails.  The stored objects are destroyed
\* (1196-1205), the creations before the failing one are made, expect()
\* panics at the failing one.  render_pass and pipeline are assigned when
\* their creation returns; the view list is assigned when every view is
\* created (1384-1405), the framebuffer list when every framebuffer is.
\* The shader modules are destroyed after create_graphics_pipelines has
\* returned Ok (1376-1378): when it fails they stay live.
SurfaceFailure(s, ok, op) ==
    LET gone  == DestroyCalls(s)
        made  == SubSeq(ok.calls, Len(gone) + 1, Len(ok.calls))
        done  == SubSeq(made, 1, FirstFailing(made, op) - 1)
    IN  [render_pass |-> IF CallsAt(done, {"create_render_pass"}) # {}
                         THEN ok.render_pass ELSE s.render_pass,
         pipeline |-> IF CallsAt(done, {"create_graphics_pipelines"}) # {}
                      THEN ok.pipeline ELSE s.pipeline,
         views |-> IF op = "create_framebuffer" THEN ok.views ELSE s.views,
         framebuffers |-> s.framebuffers,
         live |-> (s.live \ CallObjs(gone))
                     \cup {o \in LiveAfterCalls(done) : o.kind \in SurfaceKinds},
         modules |-> {o \in LiveAfterCalls(done) : o.kind = "shader_module"},
         gen |-> ok.gen,
         calls |-> gone \o done \o << FailedCall(op) >>]

----------------------------------------------------------------------------
(* The objects Integration::new creates once: descriptor pool, descriptor   *)
(* set layouts, pipeline layout, sampler, the slot buffers with their       *)
(* allocations, the layout of the user textures.                            *)

\* lines 87-118, 155-168, 309-323, 366-451, for a swapchain of n images
FixedObjects(n) ==
    {SurfaceObj("descriptor_pool", 0, 0), SurfaceObj("pipeline_layout", 0, 0),
     SurfaceObj("sampler", 0, 0), SurfaceObj("user_texture_layout", 0, 0)}
        \cup {SurfaceObj(kind, 0, k) :
                 kind \in {"descriptor_set_layout", "vertex_buffer",
                           "vertex_buffer_allocation", "index_buffer",
                           "index_buffer_allocation"},
                 k \in 0 .. (n - 1)}

\* the elements of a set of numbers (positions in a list), in increasing
\* order
RECURSIVE SortedSeq(_)
SortedSeq(S) == IF S = {} THEN <<>> ELSE <<Min(S)>> \o SortedSeq(S \ {Min(S)})

\* destroy, lines 1515-1551: the calls on the objects of new and on the
\* surface objects s, for `layouts` descriptor set layouts and `vertex` and
\* `index` slot buffers
TeardownCalls(layouts, vertex, index, s) ==
    << DeviceCall("destroy_descriptor_set_layout", SurfaceObj("user_texture_layout", 0, 0)) >>
    \o [j \in 1 .. 2 * index |->
           IF j % 2 = 1
           THEN DeviceCall("destroy_buffer", SurfaceObj("index_buffer", 0, (j - 1) \div 2))
           ELSE DeviceCall("free", SurfaceObj("index_buffer_allocation", 0, (j - 1) \div 2))]
    \o [j \in 1 .. 2 * vertex |->
           IF j % 2 = 1
           THEN DeviceCall("destroy_buffer", SurfaceObj("vertex_buffer", 0, (j - 1) \div 2))
           ELSE DeviceCall("free", SurfaceObj("vertex_buffer_allocation", 0, (j - 1) \div 2))]
    \o [k \in 1 .. Len(s.views) |-> DeviceCall("destroy_image_view", s.views[k].id)]
    \o [k \in 1 .. Len(s.framebuffers) |->
           DeviceCall("destroy_framebuffer", s.framebuffers[k].id)]
    \o << DeviceCall("destroy_render_pass", s.render_pass.id),
          DeviceCall("destroy_sampler", SurfaceObj("sampler", 0, 0)),
          DeviceCall("destroy_pipeline", s.pipeline.id),
          DeviceCall("destroy_pipeline_layout", SurfaceObj("pipeline_layout", 0, 0)) >>
    \o [k \in 1 .. layouts |->
           DeviceCall("destroy_descriptor_set_layout",
                      SurfaceObj("descriptor_set_layout", 0, k - 1))]
    \o << DeviceCall("destroy_descriptor_pool", SurfaceObj("descriptor_pool", 0, 0)) >>

\* AHashMap::drain fixes no order, and the order of one table says nothing
\* about the order of another: the sequences in which the values S of a
\* table can be visited
Orders(S) ==
    {f \in [1 .. Cardinality(S) -> S] :
        \A i, j \in 1 .. Cardinality(S) : i # j => f[i] # f[j]}

\* destroy, lines 1553-1564: the three drained tables, for the orders in
\* which drain() visits the images, the views and the allocations
TextureTeardownCalls(images, views, allocs) ==
    [k \in 1 .. Len(images) |-> DeviceCall("destroy_image", images[k])]
    \o [k \in 1 .. Len(views) |-> DeviceCall("destroy_image_view", views[k])]
    \o [k \in 1 .. Len(allocs) |-> DeviceCall("free", allocs[k])]

----------------------------------------------------------------------------
(* The operations *)

CurrentCache ==
    CacheOf(<<texture_desc_sets, texture_images, texture_image_infos,
              texture_allocations, texture_image_views>>,
            <<image_owner, live_image_views, live_allocations, pool_sets,
              live_staging, live_cmd_pools, live_fences, image_state,
              device_fault>>)

StoreCache(c) ==
    /\ texture_desc_sets' = c.desc_sets
    /\ texture_images' = c.images
    /\ texture_image_infos' = c.infos
    /\ texture_allocations' = c.allocs
    /\ texture_image_views' = c.views
    /\ image_owner' = c.image_owner
    /\ live_image_views' = c.live_views
    /\ live_allocations' = c.live_allocs
    /\ pool_sets' = c.pool_sets
    /\ live_staging' = c.staging
    /\ live_cmd_pools' = c.cmd_pools
    /\ live_fences' = c.fences
    /\ image_state' = c.image_state

\* History of a texture id, kept for the properties: "unseen" until a
\* no-offset set entry is applied ("set"), "freed" once a free entry is
\* applied, "reset" when a no-offset set entry follows a free.
RECURSIVE HistoryAfterSets(_, _, _)
HistoryAfterSets(hist, set, i) ==
    IF i > Len(set) THEN hist
    ELSE LET h == set[i].id
             v == IF set[i].delta.pos # None THEN hist[h]
                  ELSE IF hist[h] \in {"freed", "reset"} THEN "reset" ELSE "set"
         IN  HistoryAfterSets([hist EXCEPT ![h] = v], set, i + 1)

HistoryAfterFrees(hist, free) ==
    [h \in DOMAIN hist |->
        IF \E i \in 1 .. Len(free) : free[i] = h THEN "freed" ELSE hist[h]]

Call(op, args, ret, log, panic) ==
    [op |-> op, args |-> args, ret |-> ret, log |-> log, panic |-> panic]

\* mutant of CacheAtDraw: the frame's free entries are applied before the loop
CacheAtDrawFreesFirst(c, textures_delta) ==
    ApplyFrees(ApplySets(c, textures_delta.set, 1), textures_delta.free, 1)

\* lines 539-541: the cache the draw loop works with has the frame's set
\* entries applied and none of its free entries
CacheAtDraw(c, textures_delta) == ApplySets(c, textures_delta.set, 1)

\* lines 766-783 and the return of paint: c2 is the cache after the free
\* loop, which runs when the draw loop did not panic
PaintReturn(index, clipped_meshes, textures_delta, c1, r, c2) ==
    LET ok == r.panic = None
    IN  /\ ~panicked
        /\ ~c1.full
        /\ StoreCache(c2)
        /\ cmds' = IF ok THEN Append(r.cmds, [op |-> "end_render_pass"]) ELSE r.cmds
        /\ v_written' = r.v_written
        /\ i_written' = r.i_written
        /\ last_call' = Call("paint",
                             [index |-> index, clipped_meshes |-> clipped_meshes,
                              textures_delta |-> textures_delta],
                             None, r.log, r.panic)
        /\ panicked' = ~ok
        /\ reuse_of' = None
        /\ texture_history' =
              IF ok THEN HistoryAfterFrees(HistoryAfterSets(texture_history,
                                                            textures_delta.set, 1),
                                           textures_delta.free)
              ELSE HistoryAfterSets(texture_history, textures_delta.set, 1)
        /\ known_at_draw' = DOMAIN c1.desc_sets
        /\ device_calls' =
              IF ok
              THEN c1.calls \o Append(r.cmds, [op |-> "end_render_pass"])
                   \o SubSeq(c2.calls, Len(c1.calls) + 1, Len(c2.calls))
              ELSE c1.calls \o r.cmds
        /\ UNCHANGED <<surface_vars, fixed_vars, user_textures>>

\* lines 543-764: r is what the draw loop recorded with the cache c1
PaintFrees(index, clipped_meshes, textures_delta, c1, r) ==
    PaintReturn(index, clipped_meshes, textures_delta, c1, r,
                IF r.panic = None THEN ApplyFrees(c1, textures_delta.free, 1) ELSE c1)

\* lines 539-541: c1 is the cache after the set entries
PaintDraw(index, clipped_meshes, textures_delta, c1) ==
    LET env == [desc_sets |-> c1.desc_sets, user_textures |-> user_textures,
                scale_factor |-> scale_factor,
                physical_width |-> physical_width,
                physical_height |-> physical_height,
                render_pass |-> render_pass, pipeline |-> pipeline,
                framebuffers |-> framebuffers]
    IN  PaintFrees(index, clipped_meshes, textures_delta, c1,
                   IF c1.panic # None
                   THEN Aborted(c1.panic)
                   ELSE IF index >= vertex_buffers \/ index >= index_buffers
                           \/ index >= Len(framebuffers)
                   THEN Aborted(Some("index out of bounds"))
                   ELSE PaintMeshes(StartRecording(index, env), env, clipped_meshes, 1))

\* pub fn paint (lines 530-783)
Paint(index, clipped_meshes, textures_delta) ==
    PaintDraw(index, clipped_meshes, textures_delta,
              CacheAtDraw(CurrentCache, textures_delta))

\* mutant of FirstFreeSlot: a new texture is always appended
FirstFreeSlotAppend(table) == Len(table)

\* lines 1445-1456: the lowest index whose slot is None, else the length
FirstFreeSlot(table) ==
    LET free == {i \in 1 .. Len(table) : table[i] = None}
    IN  IF free = {} THEN Len(table) ELSE Min(free) - 1

\* the image views and samplers a caller hands to register_user_texture: the
\* caller created them and owns them
UserImageView(n) == SurfaceObj("user_image_view", 0, n)
UserSampler(n) == SurfaceObj("user_sampler", 0, n)

\* lines 1468-1482: update_descriptor_sets writes the caller's image view and
\* sampler into the set
WriteDescriptorSet(d, image_view, sampler) ==
    [op |-> "update_descriptor_sets", obj |-> d, image_view |-> image_view,
     image_layout |-> "SHADER_READ_ONLY_OPTIMAL", sampler |-> sampler]

\* mutant of RegisterCalls: the backend takes the image view over and
\* destroys it once the descriptor is written
RegisterCallsTakingView(d, image_view, sampler) ==
    << DeviceCall("allocate_descriptor_sets", d),
       WriteDescriptorSet(d, image_view, sampler),
       DeviceCall("destroy_image_view", image_view) >>

\* lines 1458-1482: the device calls of register_user_texture
RegisterCalls(d, image_view, sampler) ==
    << DeviceCall("allocate_descriptor_sets", d),
       WriteDescriptorSet(d, image_view, sampler) >>

\* pub fn register_user_texture (lines 1439-1489).  The image view and the
\* sampler stay the caller's; the backend keeps the descriptor set.
RegisterUserTexture(image_view, sampler) ==
    LET id == FirstFreeSlot(user_textures)
        exhausted == \/ Cardinality(pool_sets) >= DescriptorPoolMaxSets
                     \/ device_fault = Some("allocate_descriptor_sets")
        d  == Min(DescSetIds \ pool_sets)
        args == [image_view |-> image_view, sampler |-> sampler]
    IN  /\ ~panicked
        /\ id < MaxUserTextures
        /\ exhausted \/ DescSetIds \ pool_sets # {}
        /\ IF exhausted
           THEN /\ panicked' = TRUE
                /\ last_call' = Call("register_user_texture", args, None, <<>>,
                                     Some("allocate_descriptor_sets"))
                /\ device_calls' = << FailedCall("allocate_descriptor_sets") >>
                /\ UNCHANGED <<user_textures, pool_sets>>
           ELSE /\ pool_sets' = pool_sets \cup {d}
                /\ device_calls' = RegisterCalls(d, image_view, sampler)
                /\ user_textures' =
                      IF id = Len(user_textures)
                      THEN Append(user_textures, Some(d))
                      ELSE [user_textures EXCEPT ![id + 1] = Some(d)]
                /\ last_call' = Call("register_user_texture", args,
                                     Some(User(id)), <<>>, None)
                /\ panicked' = FALSE
        \* kept across the register that directly follows the unregister
        /\ reuse_of' = IF last_call.op = "unregister_user_texture"
                       THEN reuse_of ELSE None
        /\ UNCHANGED <<surface_vars, fixed_vars, cache_vars, cmds, v_written, i_written,
                       texture_history, known_at_draw>>

\* mutant of UnregisterUserTexture: a managed handle with a record has its
\* descriptor set freed
UnregisterFreesManaged(texture_id) ==
    /\ ~panicked
    /\ IF texture_id.kind = "User"
       THEN IF texture_id.id >= Len(user_textures)
            THEN /\ panicked' = TRUE
                 /\ last_call' = Call("unregister_user_texture", texture_id, None,
                                      <<>>, Some("index out of bounds"))
                 /\ device_calls' = <<>>
                 /\ UNCHANGED <<user_textures, pool_sets>>
            ELSE /\ IF user_textures[texture_id.id + 1] # None
                    THEN /\ pool_sets' = pool_sets \ {user_textures[texture_id.id + 1][1]}
                         /\ device_calls' =
                               << DeviceCall("free_descriptor_sets",
                                             user_textures[texture_id.id + 1][1]) >>
                         /\ user_textures' =
                               [user_textures EXCEPT ![texture_id.id + 1] = None]
                    ELSE /\ device_calls' = <<>>
                         /\ UNCHANGED <<user_textures, pool_sets>>
                 /\ last_call' = Call("unregister_user_texture", texture_id, None,
                                      <<>>, None)
                 /\ panicked' = FALSE
       ELSE /\ last_call' = Call("unregister_user_texture", texture_id, None,
                                 <<"The internal texture cannot be unregistered">>,
                                 None)
            /\ panicked' = FALSE
            /\ IF texture_id \in DOMAIN texture_desc_sets
               THEN /\ pool_sets' = pool_sets \ {texture_desc_sets[texture_id]}
                    /\ device_calls' =
                          << DeviceCall("free_descriptor_sets",
                                        texture_desc_sets[texture_id]) >>
               ELSE /\ device_calls' = <<>>
                    /\ UNCHANGED pool_sets
            /\ UNCHANGED user_textures
    /\ reuse_of' = IF /\ last_call.op = "register_user_texture"
                      /\ last_call.ret = Some(texture_id)
                   THEN Some(texture_id.id)
                   ELSE None
    /\ UNCHANGED <<surface_vars, fixed_vars, cache_vars, cmds, v_written, i_written,
                   texture_history, known_at_draw>>

\* mutant of UnregisterUserTexture: the slot is marked free and its
\* descriptor set is not given back to the pool
UnregisterKeepsSet(texture_id) ==
    /\ ~panicked
    /\ IF texture_id.kind = "User"
       THEN IF texture_id.id >= Len(user_textures)
            THEN /\ panicked' = TRUE
                 /\ last_call' = Call("unregister_user_texture", texture_id, None,
                                      <<>>, Some("index out of bounds"))
                 /\ device_calls' = <<>>
                 /\ UNCHANGED <<user_textures, pool_sets>>
            ELSE /\ IF user_textures[texture_id.id + 1] # None
                    THEN /\ UNCHANGED pool_sets
                         /\ device_calls' = <<>>
                         /\ user_textures' =
                               [user_textures EXCEPT ![texture_id.id + 1] = None]
                    ELSE /\ device_calls' = <<>>
                         /\ UNCHANGED <<user_textures, pool_sets>>
                 /\ last_call' = Call("unregister_user_texture", texture_id, None,
                                      <<>>, None)
                 /\ panicked' = FALSE
       ELSE /\ last_call' = Call("unregister_user_texture", texture_id, None,
                                 <<"The internal texture cannot be unregistered">>,
                                 None)
            /\ panicked' = FALSE
            /\ device_calls' = <<>>
            /\ UNCHANGED <<user_textures, pool_sets>>
    /\ reuse_of' = IF /\ last_call.op = "register_user_texture"
                      /\ last_call.ret = Some(texture_id)
                   THEN Some(texture_id.id)
                   ELSE None
    /\ UNCHANGED <<surface_vars, fixed_vars, cache_vars, cmds, v_written, i_written,
                   texture_history, known_at_draw>>

\* pub fn unregister_user_texture (lines 1494-1508)
UnregisterUserTexture(texture_id) ==
    /\ ~panicked
    /\ IF texture_id.kind = "User"
       THEN IF texture_id.id >= Len(user_textures)
            THEN /\ panicked' = TRUE
                 /\ last_call' = Call("unregister_user_texture", texture_id, None,
                                      <<>>, Some("index out of bounds"))
                 /\ device_calls' = <<>>
                 /\ UNCHANGED <<user_textures, pool_sets>>
            ELSE /\ IF user_textures[texture_id.id + 1] # None
                    THEN /\ pool_sets' = pool_sets \ {user_textures[texture_id.id + 1][1]}
                         /\ device_calls' =
                               << DeviceCall("free_descriptor_sets",
                                             user_textures[texture_id.id + 1][1]) >>
                         /\ user_textures' =
                               [user_textures EXCEPT ![texture_id.id + 1] = None]
                    ELSE /\ device_calls' = <<>>
                         /\ UNCHANGED <<user_textures, pool_sets>>
                 /\ last_call' = Call("unregister_user_texture", texture_id, None,
                                      <<>>, None)
                 /\ panicked' = FALSE
       ELSE /\ last_call' = Call("unregister_user_texture", texture_id, None,
                                 <<"The internal texture cannot be unregistered">>,
                                 None)
            /\ panicked' = FALSE
            /\ device_calls' = <<>>
            /\ UNCHANGED <<user_textures, pool_sets>>
    \* the slot given back right after register_user_texture returned it
    /\ reuse_of' = IF /\ last_call.op = "register_user_texture"
                      /\ last_call.ret = Some(texture_id)
                   THEN Some(texture_id.id)
                   ELSE None
    /\ UNCHANGED <<surface_vars, fixed_vars, cache_vars, cmds, v_written, i_written,
                   texture_history, known_at_draw>>

\* mutant of UpdateSwapchain: the slot buffers follow the number of
\* swapchain images
UpdateSwapchainResizingBuffers(width, height, swapchain, surface_format) ==
    LET s == RecreateSurface(CurrentSurface, width, height, swapchain, surface_format)
    IN  /\ ~panicked
        /\ generation < MaxSwapchainUpdates
        /\ physical_width' = width
        /\ physical_height' = height
        /\ render_pass' = s.render_pass
        /\ pipeline' = s.pipeline
        /\ framebuffer_color_image_views' = s.views
        /\ framebuffers' = s.framebuffers
        /\ live_surface' = s.live
        /\ generation' = s.gen
        /\ device_calls' = s.calls
        /\ last_call' = Call("update_swapchain",
                             [physical_width |-> width, physical_height |-> height,
                              swapchain |-> swapchain,
                              surface_format |-> surface_format],
                             None, <<>>, None)
        /\ panicked' = FALSE
        /\ reuse_of' = None
        /\ vertex_buffers' = swapchain.images
        /\ index_buffers' = swapchain.images
        /\ UNCHANGED <<scale_factor, fixed_vars, cache_vars, pool_sets,
                       user_textures, cmds, v_written, i_written, texture_history,
                       known_at_draw>>

\* pub fn update_swapchain (lines 1185-1425); swapchain = [images], the
\* number of images get_swapchain_images returns for it
UpdateSwapchain(width, height, swapchain, surface_format) ==
    LET ok     == RecreateSurface(CurrentSurface, width, height, swapchain, surface_format)
        failed == device_fault # None /\ device_fault[1] \in SurfaceCreateOps
        s      == IF failed THEN SurfaceFailure(CurrentSurface, ok, device_fault[1])
                  ELSE ok
    IN  /\ ~panicked
        /\ generation < MaxSwapchainUpdates
        /\ physical_width' = width
        /\ physical_height' = height
        /\ render_pass' = s.render_pass
        /\ pipeline' = s.pipeline
        /\ framebuffer_color_image_views' = s.views
        /\ framebuffers' = s.framebuffers
        /\ live_surface' = s.live
        /\ generation' = s.gen
        /\ device_calls' = s.calls
        /\ last_call' = Call("update_swapchain",
                             [physical_width |-> width, physical_height |-> height,
                              swapchain |-> swapchain,
                              surface_format |-> surface_format],
                             None, <<>>, IF failed THEN device_fault ELSE None)
        /\ panicked' = failed
        /\ reuse_of' = None
        /\ live_fixed' = live_fixed \cup s.modules
        /\ UNCHANGED <<scale_factor, device_fault, descriptor_set_layouts, vertex_buffers, index_buffers, cache_vars, pool_sets,
                       user_textures, cmds, v_written, i_written, texture_history,
                       known_at_draw>>

\* pub unsafe fn destroy (lines 1514-1565).  The descriptor sets of the pool
\* go with the pool.  The fields that are read with iter() keep their
\* handles; the slot buffers and the three drained tables are left empty.
Destroy ==
    LET s     == CurrentSurface
        c     == CurrentCache
        fixed == TeardownCalls(descriptor_set_layouts, vertex_buffers, index_buffers, s)
    IN  /\ ~panicked
        /\ vertex_buffers' = 0
        /\ index_buffers' = 0
        /\ live_fixed' = live_fixed \ CallObjs(fixed)
        /\ live_surface' = live_surface \ CallObjs(fixed)
        /\ pool_sets' = {}
        /\ texture_images' = EmptyMap
        /\ texture_image_views' = EmptyMap
        /\ texture_allocations' = EmptyMap
        /\ \E images \in Orders({c.images[h] : h \in DOMAIN c.images}),
              views \in Orders({c.views[h] : h \in DOMAIN c.views}),
              allocs \in Orders({c.allocs[h] : h \in DOMAIN c.allocs}) :
              /\ image_owner' = [t \in (DOMAIN image_owner) \ Range(images) |->
                                    image_owner[t]]
              /\ image_state' = [t \in (DOMAIN image_state) \ Range(images) |->
                                    image_state[t]]
              /\ live_image_views' = live_image_views \ Range(views)
              /\ live_allocations' = live_allocations \ Range(allocs)
              /\ device_calls' = fixed \o TextureTeardownCalls(images, views, allocs)
        /\ last_call' = Call("destroy", None, None, <<>>, None)
        /\ panicked' = FALSE
        /\ reuse_of' = None
        /\ UNCHANGED <<physical_width, physical_height, scale_factor, render_pass,
                       pipeline, framebuffer_color_image_views, framebuffers,
                       generation, texture_desc_sets, texture_image_infos,
                       user_textures, live_staging, live_cmd_pools, live_fences,
                       device_fault, descriptor_set_layouts, cmds, v_written,
                       i_written, texture_history, known_at_draw>>

----------------------------------------------------------------------------
(* Construction and the inputs the specifications draw *)

\* Integration::new, lines 87-451: the calls that create or destroy an
\* object, in the order made, for a swapchain of n images
NewCalls(n) ==
    << DeviceCall("create_descriptor_pool", SurfaceObj("descriptor_pool", 0, 0)) >>
    \o [k \in 1 .. n |->
           DeviceCall("create_descriptor_set_layout",
                      SurfaceObj("descriptor_set_layout", 0, k - 1))]
    \o << DeviceCall("create_render_pass", SurfaceObj("render_pass", 0, 0)),
          DeviceCall("create_pipeline_layout", SurfaceObj("pipeline_layout", 0, 0)),
          DeviceCall("create_shader_module", SurfaceObj("shader_module", 0, 0)),
          DeviceCall("create_shader_module", SurfaceObj("shader_module", 0, 1)),
          DeviceCall("create_graphics_pipelines", SurfaceObj("pipeline", 0, 0)),
          DeviceCall("destroy_shader_module", SurfaceObj("shader_module", 0, 0)),
          DeviceCall("destroy_shader_module", SurfaceObj("shader_module", 0, 1)),
          DeviceCall("create_sampler", SurfaceObj("sampler", 0, 0)) >>
    \o [k \in 1 .. n |->
           DeviceCall("create_image_view", SurfaceObj("image_view", 0, k - 1))]
    \o [k \in 1 .. n |->
           DeviceCall("create_framebuffer", SurfaceObj("framebuffer", 0, k - 1))]
    \o [j \in 1 .. 4 * n |->
           LET slot == (j - 1) \div 4
           IN  CASE (j - 1) % 4 = 0 ->
                      DeviceCall("create_buffer", SurfaceObj("vertex_buffer", 0, slot))
                 [] (j - 1) % 4 = 1 ->
                      DeviceCall("allocate", SurfaceObj("vertex_buffer_allocation", 0, slot))
                 [] (j - 1) % 4 = 2 ->
                      DeviceCall("create_buffer", SurfaceObj("index_buffer", 0, slot))
                 [] OTHER ->
                      DeviceCall("allocate", SurfaceObj("index_buffer_allocation", 0, slot))]
    \o << DeviceCall("create_descriptor_set_layout",
                     SurfaceObj("user_texture_layout", 0, 0)) >>

\* Integration::new (lines 51-487): the fields after construction, for a
\* surface of `size`, a scale factor and a swapchain of n images
InitWith(sizes, scales, counts) ==
    /\ \E size \in sizes :
          physical_width = size[1] /\ physical_height = size[2]
    /\ scale_factor \in scales
    /\ generation = 0
    /\ render_pass = CreateRenderPass(0, DefaultFormat)
    /\ pipeline = CreatePipeline(0, render_pass)
    /\ \E n \in counts :
          /\ framebuffer_color_image_views = CreateImageViews(0, n, DefaultFormat)
          /\ vertex_buffers = n
          /\ index_buffers = n
          /\ descriptor_set_layouts = n
          /\ live_fixed = FixedObjects(n)
          /\ device_calls = NewCalls(n)
    /\ framebuffers = CreateFramebuffers(0, render_pass, framebuffer_color_image_views,
                                         physical_width, physical_height)
    /\ live_surface = {render_pass.id, pipeline.id}
                          \cup {framebuffer_color_image_views[k].id :
                                    k \in 1 .. Len(framebuffer_color_image_views)}
                          \cup {framebuffers[k].id : k \in 1 .. Len(framebuffers)}
    /\ texture_desc_sets = EmptyMap
    /\ texture_images = EmptyMap
    /\ texture_image_infos = EmptyMap
    /\ texture_allocations = EmptyMap
    /\ texture_image_views = EmptyMap
    /\ user_textures = <<>>
    /\ image_owner = EmptyMap
    /\ live_image_views = {}
    /\ live_allocations = {}
    /\ pool_sets = {}
    /\ live_staging = 0
    /\ live_cmd_pools = 0
    /\ live_fences = 0
    /\ image_state = EmptyMap
    /\ device_fault = None
    /\ cmds = <<>>
    /\ v_written = <<>>
    /\ i_written = <<>>
    /\ last_call = Call("new", None, None, <<>>, None)
    /\ panicked = FALSE
    /\ reuse_of = None
    /\ texture_history = [h \in ManagedIds |-> "unseen"]
    /\ known_at_draw = {}

\* The host's render loop ends and submits the command buffer paint recorded
\* into before it calls the backend again; the next frame records into a
\* reset command buffer.  It makes no call after destroy().
FrameSubmitted == last_call.op \notin {"paint", "destroy"}

SubmitFrame ==
    /\ ~panicked
    /\ last_call.op = "paint"
    /\ cmds' = <<>>
    /\ v_written' = <<>>
    /\ i_written' = <<>>
    /\ last_call' = Call("submit", None, None, <<>>, None)
    /\ known_at_draw' = {}
    /\ device_calls' = <<>>
    /\ UNCHANGED <<surface_vars, fixed_vars, cache_vars, pool_sets, user_textures, panicked,
                   reuse_of, texture_history>>

SeqsUpTo(S, n) == UNION {[1 .. k -> S] : k \in 0 .. n}

\* an 800 x 600 surface at scale 1.0
DefaultSize == <<800, 600>>
FullClip == Rect(0, 0, FromInt(800), FromInt(600))

NoDelta == [set |-> <<>>, free |-> <<>>]
ImageDelta(pos, width, height) == [pos |-> pos, width |-> width, height |-> height]
SetEntry(id, delta) == [id |-> id, delta |-> delta]

----------------------------------------------------------------------------
(* Spec: frames that carry texture deltas *)

Offsets == {None, <<0, 0>>}
SetEntries == {SetEntry(h, ImageDelta(p, 2, 2)) : h \in ManagedIds, p \in Offsets}
FreeLists == {<<>>} \cup {<<h>> : h \in ManagedIds}
TexturesDeltas ==
    {[set |-> s, free |-> f] : s \in {<<>>} \cup {<<e>> : e \in SetEntries},
                               f \in FreeLists}

Init == InitWith({DefaultSize}, {FDen}, {1})

\* a frame without geometry: any textures delta
PaintTextures ==
    /\ FrameSubmitted
    /\ \E index \in 0 .. (Len(framebuffers) - 1), delta \in TexturesDeltas :
        Paint(index, <<>>, delta)

Next == PaintTextures \/ SubmitFrame

Spec == Init /\ [][Next]_vars

----------------------------------------------------------------------------
(* Properties of the texture cache (Spec) *)


\* the five per-handle tables
InNoTable(h) ==
    /\ h \notin DOMAIN texture_images
    /\ h \notin DOMAIN texture_image_views
    /\ h \notin DOMAIN texture_allocations
    /\ h \notin DOMAIN texture_desc_sets
    /\ h \notin DOMAIN texture_image_infos

InEveryTable(h) ==
    /\ h \in DOMAIN texture_images
    /\ h \in DOMAIN texture_image_views
    /\ h \in DOMAIN texture_allocations
    /\ h \in DOMAIN texture_desc_sets
    /\ h \in DOMAIN texture_image_infos

\* the images created for h that have not been destroyed
LiveImagesOf(h) == {t \in DOMAIN image_owner : image_owner[t] = h}

\* the entries of a set list that name h
EntriesFor(set, h) == {i \in 1 .. Len(set) : set[i].id = h}

\* C1: a paint that applies a free entry for h leaves h in none of the five
\* tables; and a paint that applies one no-offset set entry for a handle that
\* was never set, or was freed, stores a newly created image, view,
\* allocation and descriptor set and the delta's extent under h, the same in
\* both cases.
C1_FreeThenFreshSet ==
    [][last_call'.op = "paint" /\ last_call'.panic = None =>
        \A h \in ManagedIds :
            LET d == last_call'.args.textures_delta
            IN  /\ h \in Range(d.free) => InNoTable(h)'
                /\ (/\ texture_history[h] \in {"unseen", "freed"}
                    /\ h \notin Range(d.free)
                    /\ \E i \in 1 .. Len(d.set) :
                          /\ EntriesFor(d.set, h) = {i}
                          /\ d.set[i].delta.pos = None)
                   => /\ InEveryTable(h)'
                      /\ LET i == CHOOSE j \in 1 .. Len(d.set) : d.set[j].id = h
                         IN  texture_image_infos'[h] = ImageInfo(d.set[i].delta)
                      /\ texture_images'[h] \notin DOMAIN image_owner
                      /\ texture_images'[h] \in LiveImagesOf(h)'
                      /\ texture_image_views'[h] \in live_image_views'
                      /\ texture_image_views'[h] \notin live_image_views
                      /\ texture_allocations'[h] \in live_allocations'
                      /\ texture_allocations'[h] \notin live_allocations
                      /\ texture_desc_sets'[h] \in pool_sets' \ pool_sets
                      /\ \A g \in (DOMAIN texture_images') \ {h} :
                            /\ texture_images'[g] # texture_images'[h]
                            /\ texture_desc_sets'[g] # texture_desc_sets'[h]]_vars

\* C1 witness: a handle that was set, freed and set again has a record with
\* one live image
C1_Witness ==
    \E h \in ManagedIds :
        /\ texture_history[h] = "reset"
        /\ last_call.op = "paint"
        /\ \E i \in 1 .. Len(last_call.args.textures_delta.set) :
              /\ last_call.args.textures_delta.set[i].id = h
              /\ last_call.args.textures_delta.set[i].delta.pos = None
        /\ InEveryTable(h)
        /\ Cardinality(LiveImagesOf(h)) = 1

\* C2: a paint whose delta is one set entry with a placement offset, for a
\* handle without a record, leaves the five tables as they were.
C2_OffsetSetUnknownIsNoop ==
    [][\A h \in ManagedIds :
          (/\ last_call'.op = "paint"
           /\ last_call'.args.textures_delta.free = <<>>
           /\ Len(last_call'.args.textures_delta.set) = 1
           /\ last_call'.args.textures_delta.set[1].id = h
           /\ last_call'.args.textures_delta.set[1].delta.pos # None
           /\ h \notin DOMAIN texture_images)
          => UNCHANGED <<texture_images, texture_image_views,
                         texture_allocations, texture_desc_sets,
                         texture_image_infos>>]_vars

\* C3: every managed handle has one live image when it has a record and none
\* otherwise.
C3_AtMostOneLiveTexture ==
    \A h \in ManagedIds :
        Cardinality(LiveImagesOf(h)) = IF h \in DOMAIN texture_images THEN 1 ELSE 0

----------------------------------------------------------------------------
(* SpecDraw: the user texture registry and frames whose meshes use it *)

TextureIds == ManagedIds \cup UserIds

\* a quad and a triangle on two user textures, and a mesh without indices
DrawMeshes ==
    {Mesh(FullClip, User(0), 4, 6), Mesh(FullClip, User(1), 3, 3),
     Mesh(FullClip, User(0), 4, 0)}

InitDraw == InitWith({DefaultSize}, {FDen}, {1})

PaintMeshLists ==
    /\ FrameSubmitted
    /\ \E index \in 0 .. (Len(framebuffers) - 1),
          meshes \in SeqsUpTo(DrawMeshes, MaxPrims) :
          Paint(index, meshes, NoDelta)

Register == FrameSubmitted /\ RegisterUserTexture(UserImageView(0), UserSampler(0))

Unregister == FrameSubmitted /\ \E t \in TextureIds : UnregisterUserTexture(t)

NextDraw == PaintMeshLists \/ SubmitFrame \/ Register \/ Unregister

SpecDraw == InitDraw /\ [][NextDraw]_vars

----------------------------------------------------------------------------
(* Properties of the draw loop and the registry (SpecDraw) *)

\* the indexed draws of the command buffer, in recorded order
Draws == SelectSeq(cmds, LAMBDA c : c.op = "draw_indexed")

\* the position in clipped_meshes of the mesh whose indices the draw reads:
\* the indices copied at byte offset first_index * IndexSize of the mapping
DrawSource(d) ==
    (CHOOSE s \in Range(i_written) : s.off = d.first_index * IndexSize).src

IsEmptyMesh(mesh) == mesh.vertices = 0 \/ mesh.indices = 0

\* the mesh names a user slot that is unregistered or was never allocated
MissingUserSlot(mesh) ==
    /\ ~IsEmptyMesh(mesh)
    /\ mesh.texture_id.kind = "User"
    /\ \/ mesh.texture_id.id >= Len(user_textures)
       \/ user_textures[mesh.texture_id.id + 1] = None

\* the mesh names a managed handle that had no record when the loop ran
MissingManaged(mesh) ==
    /\ ~IsEmptyMesh(mesh)
    /\ mesh.texture_id.kind = "Managed"
    /\ mesh.texture_id \notin known_at_draw

\* positions of the meshes paint has to draw
Drawable(meshes) ==
    {k \in 1 .. Len(meshes) :
        /\ ~IsEmptyMesh(meshes[k])
        /\ ~MissingUserSlot(meshes[k])
        /\ ~MissingManaged(meshes[k])}

DrawnSources == {DrawSource(Draws[k]) : k \in 1 .. Len(Draws)}

\* C4: the draws of a paint are meshes of the list that were not skipped,
\* each drawn once with its own index count, in the order of the list; when
\* paint returns, every mesh that was not skipped has its draw.
C4_DrawOrder ==
    last_call.op = "paint" =>
        LET meshes == last_call.args.clipped_meshes
        IN  /\ \A k \in 1 .. Len(Draws) :
                  /\ \E s \in Range(i_written) :
                        s.off = Draws[k].first_index * IndexSize
                  /\ DrawSource(Draws[k]) \in Drawable(meshes)
                  /\ Draws[k].index_count = meshes[DrawSource(Draws[k])].indices
            /\ \A j, k \in 1 .. Len(Draws) :
                  j < k => DrawSource(Draws[j]) < DrawSource(Draws[k])
            /\ last_call.panic = None => DrawnSources = Drawable(meshes)

\* C4 witness: a paint that drew two meshes with a skipped mesh between them
C4_Witness ==
    /\ last_call.op = "paint"
    /\ last_call.panic = None
    /\ Len(Draws) = 2
    /\ DrawSource(Draws[1]) = 1
    /\ DrawSource(Draws[2]) = 3
    /\ ~IsEmptyMesh(last_call.args.clipped_meshes[2])

\* C8: register_user_texture returns the lowest free slot, or the table
\* length when none is free, fills that slot and no other; the slot given
\* back by the unregister that followed its own register is returned again.
C8_RegisterLowestFreeSlot ==
    [][last_call'.op = "register_user_texture" /\ last_call'.panic = None =>
        LET id == last_call'.ret[1].id
            n  == Len(user_textures)
        IN  /\ last_call'.ret[1].kind = "User"
            /\ id <= n
            /\ \A j \in 1 .. id : user_textures[j] # None
            /\ id < n => user_textures[id + 1] = None
            /\ Len(user_textures') = IF id = n THEN n + 1 ELSE n
            /\ user_textures'[id + 1] # None
            /\ \A j \in 1 .. n : j # id + 1 => user_textures'[j] = user_textures[j]
            /\ (last_call.op = "unregister_user_texture" /\ reuse_of # None)
               => id = reuse_of[1]]_vars

\* C8 witness: register A, unregister A, register B gave B the slot of A,
\* below another occupied slot
C8_Witness ==
    /\ last_call.op = "register_user_texture"
    /\ reuse_of # None
    /\ last_call.ret = Some(User(reuse_of[1]))
    /\ \E j \in 1 .. Len(user_textures) : j # reuse_of[1] + 1 /\ user_textures[j] # None

\* C10: a paint that meets a mesh whose user slot is unregistered or was
\* never allocated returns normally: one message per such mesh, the render
\* pass ended, every other drawable mesh drawn.
C10_MissingUserSlotSkipped ==
    (/\ last_call.op = "paint"
     /\ \E k \in 1 .. Len(last_call.args.clipped_meshes) :
           MissingUserSlot(last_call.args.clipped_meshes[k]))
    => /\ last_call.panic = None
       /\ cmds[Len(cmds)].op = "end_render_pass"
       /\ DrawnSources = Drawable(last_call.args.clipped_meshes)
       /\ Len(last_call.log) =
             Cardinality({k \in 1 .. Len(last_call.args.clipped_meshes) :
                             MissingUserSlot(last_call.args.clipped_meshes[k])})


-----------------------------------------------------------------------------
(* SpecScissor: one registered texture, surfaces of several sizes and scale *)
(* factors, one quad per frame under a clip rectangle that may lie outside  *)
(* the surface or be inverted.                                             *)

\* physical sizes: a tiny surface and the default one
SurfaceSizes == {<<3, 2>>, DefaultSize}
\* scale factors 0.5, 1.0 and 1.5
ScaleFactors == {FDen \div 2, FDen, FDen + FDen \div 2}
\* clip coordinates in points: -1, 0.25, 1.5, 2.5 and 801 on x; 0, 0.5, 2.5
\* and 601 on y
ClipXs == {-FDen, FDen \div 4, FDen + FDen \div 2, 2 * FDen + FDen \div 2, FromInt(801)}
ClipYs == {0, FDen \div 2, 2 * FDen + FDen \div 2, FromInt(601)}
ClipRects == {Rect(x0, y0, x1, y1) : x0 \in ClipXs, y0 \in ClipYs,
                                     x1 \in ClipXs, y1 \in ClipYs}

InitScissor == InitWith(SurfaceSizes, ScaleFactors, {1})

PaintClip ==
    /\ FrameSubmitted
    /\ \E clip_rect \in ClipRects :
          Paint(0, <<Mesh(clip_rect, User(0), 4, 6)>>, NoDelta)

NextScissor == PaintClip \/ SubmitFrame \/ Register

SpecScissor == InitScissor /\ [][NextScissor]_vars

\* the scissor rectangles of the command buffer
Scissors == SelectSeq(cmds, LAMBDA c : c.op = "set_scissor")

\* C5: every scissor rectangle recorded before a draw lies within the
\* surface: offset >= 0, offset + extent <= (physical_width,
\* physical_height), extent >= 0, and the clamped max corner is >= the
\* clamped min corner on both axes; every draw has its scissor rectangle.
C5_ScissorWithinSurface ==
    /\ Len(Scissors) = Len(Draws)
    /\ \A k \in 1 .. Len(Scissors) :
          LET rect == Scissors[k].rect
              clip == last_call.args.clipped_meshes[DrawSource(Draws[k])].clip_rect
              min  == ScissorMin(clip, scale_factor, physical_width, physical_height)
              max  == ScissorMax(clip, scale_factor, physical_width, physical_height)
          IN  /\ rect.x >= 0
              /\ rect.y >= 0
              /\ rect.width >= 0
              /\ rect.height >= 0
              /\ rect.x + rect.width <= physical_width
              /\ rect.y + rect.height <= physical_height
              /\ max.x >= min.x
              /\ max.y >= min.y
              /\ min.x >= 0
              /\ min.y >= 0
              /\ max.x <= FromInt(physical_width)
              /\ max.y <= FromInt(physical_height)

\* C5 witness: a quad drawn under a clip rectangle that is inverted on x and
\* reaches beyond the surface on y, on a scaled surface
C5_Witness ==
    /\ last_call.op = "paint"
    /\ last_call.panic = None
    /\ scale_factor # FDen
    /\ Len(Scissors) = 1
    /\ Len(Draws) = 1
    /\ LET clip == last_call.args.clipped_meshes[1].clip_rect
       IN  /\ clip.max.x < clip.min.x
           /\ clip.min.x > 0
           /\ FMul(clip.max.y, scale_factor) > FromInt(physical_height)
           /\ clip.min.y > 0
    /\ Scissors[1].rect.width = 0
    /\ Scissors[1].rect.height > 0

-----------------------------------------------------------------------------
(* SpecOverflow: one registered texture and frames whose meshes fill the    *)
(* slot's vertex and index regions up to, exactly to, and beyond capacity.  *)

\* vertex counts: 209715 * 20 = 4194300 bytes fit, 209716 * 20 do not
VerticesFit == VertexBufferSize \div VertexSize
\* index counts: 524288 * 4 bytes are the index region exactly
IndicesExact == IndexBufferSize \div IndexSize

BigMeshes ==
    {Mesh(FullClip, User(0), 4, 6),
     Mesh(FullClip, User(0), VerticesFit, 6),
     Mesh(FullClip, User(0), VerticesFit + 1, 6),
     Mesh(FullClip, User(0), 4, IndicesExact \div 2),
     Mesh(FullClip, User(0), 4, IndicesExact)}

InitOverflow == InitWith({DefaultSize}, {FDen}, {1})

PaintBig ==
    /\ FrameSubmitted
    /\ \E meshes \in SeqsUpTo(BigMeshes, MaxPrims) : Paint(0, meshes, NoDelta)

NextOverflow == PaintBig \/ SubmitFrame \/ Register

SpecOverflow == InitOverflow /\ [][NextOverflow]_vars

\* every non-empty mesh of the list found its descriptor set
AllResolved(meshes) ==
    \A k \in 1 .. Len(meshes) :
        IsEmptyMesh(meshes[k]) \/ k \in Drawable(meshes)

\* bytes the drawable meshes at positions 1 .. k put into the two regions
RECURSIVE VertexBytes(_, _)
VertexBytes(meshes, k) ==
    IF k = 0 THEN 0
    ELSE VertexBytes(meshes, k - 1)
         + (IF k \in Drawable(meshes) THEN meshes[k].vertices * VertexSize ELSE 0)

RECURSIVE IndexBytes(_, _)
IndexBytes(meshes, k) ==
    IF k = 0 THEN 0
    ELSE IndexBytes(meshes, k - 1)
         + (IF k \in Drawable(meshes) THEN meshes[k].indices * IndexSize ELSE 0)

OutOfMemory == Some("egui paint out of memory")

\* C6: no copy reaches offset N of its region: every segment copied into the
\* vertex (index) mapping ends at or below VertexBufferSize
\* (IndexBufferSize) and is the segment of a mesh whose cumulative bytes
\* fit; and a paint whose meshes total more than the capacity of either
\* region panics with the out-of-memory message.
C6_OverflowBeforeCopy ==
    /\ \A s \in Range(v_written) :
          /\ s.off >= 0
          /\ s.off + s.len * VertexSize <= VertexBufferSize
    /\ \A s \in Range(i_written) :
          /\ s.off >= 0
          /\ s.off + s.len * IndexSize <= IndexBufferSize
    /\ last_call.op = "paint" =>
          LET meshes == last_call.args.clipped_meshes
          IN  /\ \A s \in Range(v_written) :
                    s.off + s.len * VertexSize = VertexBytes(meshes, s.src)
              /\ \A s \in Range(i_written) :
                    s.off + s.len * IndexSize = IndexBytes(meshes, s.src)
              /\ (/\ AllResolved(meshes)
                  /\ \/ VertexBytes(meshes, Len(meshes)) > VertexBufferSize
                     \/ IndexBytes(meshes, Len(meshes)) > IndexBufferSize)
                 => last_call.panic = OutOfMemory

\* C6 witness: a paint that copied a mesh and then met one that would have
\* taken the index region beyond its capacity, the vertex region not full
C6_Witness ==
    /\ last_call.op = "paint"
    /\ last_call.panic = OutOfMemory
    /\ Len(i_written) >= 1
    /\ LET meshes == last_call.args.clipped_meshes
       IN  /\ AllResolved(meshes)
           /\ IndexBytes(meshes, Len(meshes)) > IndexBufferSize
           /\ VertexBytes(meshes, Len(meshes)) < VertexBufferSize

\* C7: a paint whose meshes fill the vertex region or the index region
\* exactly, neither region being exceeded, is recorded completely and does
\* not panic.
C7_ExactFitAllowed ==
    (/\ last_call.op = "paint"
     /\ LET meshes == last_call.args.clipped_meshes
        IN  /\ AllResolved(meshes)
            /\ VertexBytes(meshes, Len(meshes)) <= VertexBufferSize
            /\ IndexBytes(meshes, Len(meshes)) <= IndexBufferSize
            /\ \/ VertexBytes(meshes, Len(meshes)) = VertexBufferSize
               \/ IndexBytes(meshes, Len(meshes)) = IndexBufferSize)
    => /\ last_call.panic = None
       /\ DrawnSources = Drawable(last_call.args.clipped_meshes)
       /\ cmds[Len(cmds)].op = "end_render_pass"

-----------------------------------------------------------------------------
(* SpecManaged: frames that draw with managed handles the cache may or may  *)
(* not hold.                                                               *)

ManagedMeshes == {Mesh(FullClip, h, 4, 6) : h \in ManagedIds}
ManagedDeltas ==
    {NoDelta,
     [set |-> <<SetEntry(Managed(0), ImageDelta(None, 2, 2))>>, free |-> <<>>],
     [set |-> <<>>, free |-> <<Managed(0)>>]}

InitManaged == InitWith({DefaultSize}, {FDen}, {1})

PaintManaged ==
    /\ FrameSubmitted
    /\ \E meshes \in SeqsUpTo(ManagedMeshes, MaxPrims), delta \in ManagedDeltas :
          Paint(0, meshes, delta)

NextManaged == PaintManaged \/ SubmitFrame

SpecManaged == InitManaged /\ [][NextManaged]_vars

\* C9: a paint that meets a non-empty mesh whose managed handle has no
\* record reports it and returns normally: the render pass is ended and every
\* other drawable mesh is drawn.
C9_UnknownManagedSkipped ==
    (/\ last_call.op = "paint"
     /\ \E k \in 1 .. Len(last_call.args.clipped_meshes) :
           MissingManaged(last_call.args.clipped_meshes[k]))
    => /\ last_call.panic = None
       /\ Len(last_call.log) >= 1
       /\ cmds[Len(cmds)].op = "end_render_pass"
       /\ DrawnSources = Drawable(last_call.args.clipped_meshes)


-----------------------------------------------------------------------------
(* Order of the steps of one paint (SpecManaged) *)

CreateOps == {"create_image", "allocate", "create_image_view",
              "allocate_descriptor_sets"}
DestroyOps == {"destroy_image", "destroy_image_view", "free"}

\* handles a delta gives a whole image to
NoOffsetSetIds(delta) ==
    {delta.set[i].id : i \in {j \in 1 .. Len(delta.set) : delta.set[j].delta.pos = None}}

\* C11: in a paint whose non-empty meshes all name managed handles that have
\* a record before the call or get one from the call's set entries, every
\* call of the set entries comes before the render pass begins, every
\* mesh is drawn (also one whose handle is in the call's free entries), and
\* the calls that destroy the freed records come after end_render_pass, at
\* which point the freed handles have left the table.
C11_SetsBeforeDrawsBeforeFrees ==
    [][(/\ last_call'.op = "paint"
        /\ LET meshes == last_call'.args.clipped_meshes
               delta  == last_call'.args.textures_delta
           IN  \A k \in 1 .. Len(meshes) :
                  /\ meshes[k].texture_id.kind = "Managed"
                  /\ meshes[k].texture_id \in
                        (DOMAIN texture_desc_sets) \cup NoOffsetSetIds(delta))
       => LET meshes == last_call'.args.clipped_meshes
              delta  == last_call'.args.textures_delta
              begin  == CallsAt(device_calls', {"begin_render_pass"})
              end    == CallsAt(device_calls', {"end_render_pass"})
              draws  == CallsAt(device_calls', {"bind_descriptor_sets", "draw_indexed"})
          IN  /\ last_call'.panic = None
              /\ Cardinality(begin) = 1
              /\ Cardinality(end) = 1
              /\ \A i \in CallsAt(device_calls', CreateOps) : \A b \in begin : i < b
              /\ \A i \in draws : \A b \in begin : \A e \in end : b < i /\ i < e
              /\ Cardinality(CallsAt(device_calls', {"draw_indexed"}))
                    = Cardinality({k \in 1 .. Len(meshes) : ~IsEmptyMesh(meshes[k])})
              /\ \A h \in Range(delta.free) : h \notin DOMAIN texture_desc_sets'
              \* before the end of the render pass only temporaries of the
              \* set entries are destroyed
              /\ \A j \in CallsAt(device_calls', DestroyOps) : \A e \in end :
                    j < e => \E i \in 1 .. (j - 1) :
                                /\ device_calls'[i].op = "create_image"
                                /\ device_calls'[i].obj = device_calls'[j].obj
              \* one image is destroyed after it for every freed record
              /\ Cardinality({j \in CallsAt(device_calls', {"destroy_image"}) :
                                 \A e \in end : e < j})
                    = Cardinality(Range(delta.free) \cap
                          ((DOMAIN texture_desc_sets) \cup NoOffsetSetIds(delta)))]_vars

\* C11 witness: a paint drew a mesh with a handle that its own free entry
\* then removed
C11_Witness ==
    /\ last_call.op = "paint"
    /\ last_call.panic = None
    /\ Len(Draws) >= 1
    /\ \E k \in DrawnSources :
          /\ last_call.args.clipped_meshes[k].texture_id
                \in Range(last_call.args.textures_delta.free)
          /\ last_call.args.clipped_meshes[k].texture_id \notin DOMAIN texture_desc_sets
    /\ \E j \in CallsAt(device_calls, {"destroy_image"}) :
          \A e \in CallsAt(device_calls, {"end_render_pass"}) : e < j


-----------------------------------------------------------------------------
(* The free loop: order of destruction, the descriptor pool, unknown handles *)

\* the calls of the last paint made after end_render_pass: its free loop
AfterEnd(i) == \A e \in CallsAt(device_calls, {"end_render_pass"}) : e < i

\* C12: the free loop destroys the image view of a record before its image
\* and releases the allocation after the image is destroyed.
C12_FreeDestroysViewThenImage ==
    last_call.op = "paint" =>
        \A i \in CallsAt(device_calls, {"destroy_image"}) :
            AfterEnd(i) =>
                /\ \E v \in CallsAt(device_calls, {"destroy_image_view"}) :
                      /\ device_calls[v].obj = device_calls[i].obj
                      /\ v < i
                /\ \E f \in CallsAt(device_calls, {"free"}) :
                      /\ device_calls[f].obj = device_calls[i].obj
                      /\ i < f

\* slots of the user texture table that hold a descriptor set
OccupiedUserSlots == {j \in 1 .. Len(user_textures) : user_textures[j] # None}

\* C14: a paint whose free entries all name handles that are in none of the
\* per-handle tables, before the call and after its set entries, makes no
\* destroy call and prints nothing, and leaves the tables, the live objects
\* and the pool as its set entries alone leave them.
C14_FreeUnknownIsNoop ==
    [][(/\ last_call'.op = "paint"
        /\ last_call'.panic = None
        /\ last_call'.args.textures_delta.free # <<>>
        /\ \A h \in Range(last_call'.args.textures_delta.free) :
              /\ InNoTable(h)
              /\ EntriesFor(last_call'.args.textures_delta.set, h) = {})
       => LET delta == last_call'.args.textures_delta
              c1    == ApplySets(CurrentCache, delta.set, 1)
          IN  /\ last_call'.log = <<>>
              /\ \A i \in CallsAt(device_calls', DestroyOps) :
                    \E j \in 1 .. (i - 1) :
                        /\ device_calls'[j].op = "create_image"
                        /\ device_calls'[j].obj = device_calls'[i].obj
              /\ \A i \in CallsAt(device_calls', DestroyOps) :
                    device_calls'[i].obj \in TexObjIds
              /\ texture_desc_sets' = c1.desc_sets
              /\ texture_images' = c1.images
              /\ texture_image_infos' = c1.infos
              /\ texture_allocations' = c1.allocs
              /\ texture_image_views' = c1.views
              /\ image_owner' = c1.image_owner
              /\ live_image_views' = c1.live_views
              /\ live_allocations' = c1.live_allocs
              /\ pool_sets' = c1.pool_sets
              /\ delta.set = <<>> => UNCHANGED <<cache_vars, pool_sets>>
              /\ UNCHANGED user_textures]_vars

\* C14 witness: a paint freed a handle that was never set while another
\* handle has its record, and no call was made after the render pass ended
C14_Witness ==
    /\ last_call.op = "paint"
    /\ last_call.panic = None
    /\ last_call.args.textures_delta.set = <<>>
    /\ \E h \in Range(last_call.args.textures_delta.free) :
          /\ InNoTable(h)
          /\ LiveImagesOf(h) = {}
          /\ \E g \in ManagedIds : g # h /\ InEveryTable(g)
    /\ device_calls[Len(device_calls)].op = "end_render_pass"


-----------------------------------------------------------------------------
(* SpecRegistry: frames that set and free a managed texture, between calls  *)
(* of register_user_texture and unregister_user_texture.                   *)

InitRegistry == InitWith({DefaultSize}, {FDen}, {1})

PaintDeltas ==
    /\ FrameSubmitted
    /\ \E delta \in ManagedDeltas : Paint(0, <<>>, delta)

NextRegistry == PaintDeltas \/ SubmitFrame \/ Register \/ Unregister

SpecRegistry == InitRegistry /\ [][NextRegistry]_vars

\* C13: the descriptor sets allocated from the pool are those of the managed
\* records and of the occupied user slots, one each.
C13_PoolSetsAreLiveTextures ==
    Cardinality(pool_sets)
        = Cardinality(DOMAIN texture_desc_sets) + Cardinality(OccupiedUserSlots)

\* C20: unregister_user_texture with a managed handle prints its message and
\* returns; it makes no device call and leaves the user texture table, the
\* texture cache and the descriptor pool as they were.
C20_UnregisterManagedIsNoop ==
    [][(/\ last_call'.op = "unregister_user_texture"
        /\ last_call'.args.kind = "Managed")
       => /\ last_call'.panic = None
          /\ ~panicked'
          /\ Len(last_call'.log) = 1
          /\ device_calls' = <<>>
          /\ UNCHANGED <<user_textures, cache_vars, pool_sets>>]_vars

\* C20 witness: unregister_user_texture was called with the handle of a
\* managed record while a user slot is occupied
C20_Witness ==
    /\ last_call.op = "unregister_user_texture"
    /\ last_call.args.kind = "Managed"
    /\ InEveryTable(last_call.args)
    /\ texture_desc_sets[last_call.args] \in pool_sets
    /\ OccupiedUserSlots # {}


-----------------------------------------------------------------------------
(* SpecSwapchain: update_swapchain with other sizes, formats and numbers of  *)
(* swapchain images, between frames that set a texture and draw a quad.     *)

NewSizes == {DefaultSize, <<1024, 768>>}
SurfaceFormats == {[format |-> DefaultFormat], [format |-> "R8G8B8A8_SRGB"]}
Swapchains == {[images |-> 1], [images |-> 2]}

\* a clip rectangle larger than every surface
HugeClip == Rect(0, 0, FromInt(2048), FromInt(2048))
SwapchainMeshLists == {<<>>, <<Mesh(HugeClip, User(0), 4, 6)>>}
SwapchainDeltas ==
    {NoDelta,
     [set |-> <<SetEntry(Managed(0), ImageDelta(None, 2, 2))>>, free |-> <<>>]}

InitSwapchain == InitWith({DefaultSize}, {FDen}, {1})

Resize ==
    /\ FrameSubmitted
    /\ \E size \in NewSizes, swapchain \in Swapchains, surface_format \in SurfaceFormats :
          UpdateSwapchain(size[1], size[2], swapchain, surface_format)

PaintSlot ==
    /\ FrameSubmitted
    /\ \E index \in 0 .. (Len(framebuffers) - 1),
          meshes \in SwapchainMeshLists, delta \in SwapchainDeltas :
          Paint(index, meshes, delta)

NextSwapchain == Resize \/ PaintSlot \/ SubmitFrame \/ Register

SpecSwapchain == InitSwapchain /\ [][NextSwapchain]_vars

\* C15: update_swapchain destroys every framebuffer before the image view
\* it references; the k-th stored framebuffer is the one built on the k-th
\* stored view.
C15_FramebuffersBeforeViews ==
    last_call.op = "update_swapchain" =>
        \A f \in CallsAt(device_calls, {"destroy_framebuffer"}) :
            \A v \in CallsAt(device_calls, {"destroy_image_view"}) :
                (/\ device_calls[f].obj.gen = device_calls[v].obj.gen
                 /\ device_calls[f].obj.n = device_calls[v].obj.n)
                => f < v

\* C16: update_swapchain leaves the slot buffers, the texture cache, its
\* device objects, the descriptor pool and the user texture table as they
\* were.
C16_ResizeLeavesPoolAndCache ==
    [][last_call'.op = "update_swapchain" =>
          UNCHANGED <<vertex_buffers, index_buffers, cache_vars, pool_sets,
                      user_textures, scale_factor>>]_vars

\* C16 witness: update_swapchain ran with another size, format and number
\* of images while a managed record and a user texture exist
C16_Witness ==
    /\ last_call.op = "update_swapchain"
    /\ last_call.args.physical_width # DefaultSize[1]
    /\ last_call.args.surface_format.format # DefaultFormat
    /\ last_call.args.swapchain.images # vertex_buffers
    /\ InEveryTable(Managed(0))
    /\ OccupiedUserSlots # {}

\* the Surface State as a value: sizes, formats and counts, no identities
SurfaceValue ==
    [width |-> physical_width, height |-> physical_height,
     format |-> render_pass.format,
     config |-> pipeline.config,
     views |-> [k \in 1 .. Len(framebuffer_color_image_views) |->
                   [image |-> framebuffer_color_image_views[k].image,
                    format |-> framebuffer_color_image_views[k].format]],
     framebuffers |-> [k \in 1 .. Len(framebuffers) |->
                          [width |-> framebuffers[k].width,
                           height |-> framebuffers[k].height]]]

\* the objects the Surface State holds
SurfaceObjects ==
    {render_pass.id, pipeline.id}
        \cup {framebuffer_color_image_views[k].id :
                 k \in 1 .. Len(framebuffer_color_image_views)}
        \cup {framebuffers[k].id : k \in 1 .. Len(framebuffers)}

\* C17: an update_swapchain that follows an update_swapchain with the same
\* arguments leaves the Surface State equal in value (sizes, format, views,
\* framebuffers and the configuration of the pipeline); it destroys exactly
\* the objects the first call created and holds newly created ones.
C17_ResizeIdempotent ==
    [][(/\ last_call.op = "update_swapchain"
        /\ last_call'.op = "update_swapchain"
        /\ last_call'.args = last_call.args)
       => /\ SurfaceValue' = SurfaceValue
          /\ CallObjs(SelectSeq(device_calls',
                                LAMBDA c : c.op \in {"destroy_render_pass",
                                    "destroy_pipeline", "destroy_image_view",
                                    "destroy_framebuffer"}))
                = SurfaceObjects
          /\ SurfaceObjects
                = CallObjs(SelectSeq(device_calls,
                                     LAMBDA c : c.op \in {"create_render_pass",
                                         "create_graphics_pipelines",
                                         "create_image_view", "create_framebuffer"}))
          /\ SurfaceObjects' \cap SurfaceObjects = {}
          /\ live_surface' = SurfaceObjects']_vars

\* C17 witness: a second update_swapchain, on a swapchain of two images at
\* 1024 x 768, destroyed the two framebuffers the first one created
C17_Witness ==
    /\ last_call.op = "update_swapchain"
    /\ generation = 2
    /\ last_call.args.swapchain.images = 2
    /\ last_call.args.physical_width = 1024
    /\ \A k \in 1 .. Len(device_calls) :
          device_calls[k].op = "destroy_render_pass" => device_calls[k].obj.gen = 1
    /\ \E k \in 1 .. Len(device_calls) :
          /\ device_calls[k].op = "destroy_framebuffer"
          /\ device_calls[k].obj.n = 1

\* C18: there is one vertex buffer and one index buffer per framebuffer.
C18_OneBufferPairPerSlot ==
    /\ vertex_buffers = Len(framebuffers)
    /\ index_buffers = Len(framebuffers)

\* C19: the stored surface objects are live; the pipeline and every
\* framebuffer were created for the stored render pass; the k-th framebuffer
\* is built on the k-th stored view and has the stored size; the views have
\* the format of the render pass; a recorded frame begins the stored render
\* pass on a stored framebuffer with the stored size as render area and
\* viewport, binds the stored pipeline, and clamps its scissor rectangles to
\* the stored size.
C19_SurfaceConsistent ==
    /\ SurfaceObjects \subseteq live_surface
    /\ pipeline.render_pass = render_pass.id
    /\ Len(framebuffers) = Len(framebuffer_color_image_views)
    /\ \A k \in 1 .. Len(framebuffers) :
          /\ framebuffers[k].render_pass = render_pass.id
          /\ framebuffers[k].attachment = framebuffer_color_image_views[k].id
          /\ framebuffers[k].width = physical_width
          /\ framebuffers[k].height = physical_height
          /\ framebuffer_color_image_views[k].format = render_pass.format
    /\ \A k \in 1 .. Len(cmds) :
          /\ cmds[k].op = "begin_render_pass" =>
                /\ cmds[k].render_pass = render_pass.id
                /\ \E j \in 1 .. Len(framebuffers) : cmds[k].target = framebuffers[j].id
                /\ cmds[k].width = physical_width
                /\ cmds[k].height = physical_height
          /\ cmds[k].op = "bind_pipeline" => cmds[k].pipeline = pipeline.id
          /\ cmds[k].op = "set_viewport" =>
                /\ cmds[k].width = physical_width
                /\ cmds[k].height = physical_height
          /\ cmds[k].op = "set_scissor" =>
                /\ cmds[k].rect.x + cmds[k].rect.width <= physical_width
                /\ cmds[k].rect.y + cmds[k].rect.height <= physical_height

\* C19 witness: a frame drawn after update_swapchain changed size and
\* format, its scissor rectangle the whole new surface
C19_Witness ==
    /\ last_call.op = "paint"
    /\ last_call.panic = None
    /\ generation >= 1
    /\ physical_width = 1024
    /\ render_pass.format # DefaultFormat
    /\ Len(Scissors) = 1
    /\ Scissors[1].rect = [x |-> 0, y |-> 0, width |-> 1024, height |-> 768]


-----------------------------------------------------------------------------
(* unregister_user_texture with a User handle (SpecRegistry) *)

\* C21: unregister_user_texture with a User handle whose slot is in the
\* table and already free frees no descriptor set, leaves the table and the
\* pool as they were, and prints a warning.
C21_UnregisterFreeSlotWarns ==
    [][(/\ last_call'.op = "unregister_user_texture"
        /\ last_call'.args.kind = "User"
        /\ last_call'.args.id < Len(user_textures)
        /\ user_textures[last_call'.args.id + 1] = None)
       => /\ last_call'.panic = None
          /\ device_calls' = <<>>
          /\ UNCHANGED <<user_textures, pool_sets>>
          /\ Len(last_call'.log) >= 1]_vars

\* C22: unregister_user_texture with a User handle whose slot holds a
\* descriptor set calls free_descriptor_sets once, for that set, which leaves
\* the pool; the slot becomes None, every other slot and the length of the
\* table stay, and nothing else is freed.
C22_UnregisterReleasesSlot ==
    [][(/\ last_call'.op = "unregister_user_texture"
        /\ last_call'.args.kind = "User"
        /\ last_call'.args.id < Len(user_textures)
        /\ user_textures[last_call'.args.id + 1] # None)
       => LET slot == last_call'.args.id + 1
              d    == user_textures[slot][1]
          IN  /\ last_call'.panic = None
              /\ ~panicked'
              /\ d \in pool_sets
              /\ device_calls' = << DeviceCall("free_descriptor_sets", d) >>
              /\ pool_sets' = pool_sets \ {d}
              /\ Len(user_textures') = Len(user_textures)
              /\ user_textures'[slot] = None
              /\ \A j \in 1 .. Len(user_textures) :
                    j # slot => user_textures'[j] = user_textures[j]
              /\ UNCHANGED cache_vars]_vars

\* C22 witness: unregister_user_texture freed the set of the first slot of a
\* table whose second slot is still occupied
C22_Witness ==
    /\ last_call.op = "unregister_user_texture"
    /\ last_call.args = User(0)
    /\ last_call.panic = None
    /\ Len(device_calls) = 1
    /\ device_calls[1].op = "free_descriptor_sets"
    /\ device_calls[1].obj \notin pool_sets
    /\ Len(user_textures) = 2
    /\ user_textures[1] = None
    /\ user_textures[2] # None


-----------------------------------------------------------------------------
(* SpecTeardown: destroy() after frames with texture deltas, update_swapchain, *)
(* register_user_texture and unregister_user_texture.                       *)

TeardownDeltas ==
    {NoDelta,
     [set |-> <<SetEntry(Managed(0), ImageDelta(None, 2, 2))>>, free |-> <<>>],
     [set |-> <<SetEntry(Managed(1), ImageDelta(None, 1, 1))>>, free |-> <<>>],
     [set |-> <<SetEntry(Managed(0), ImageDelta(<<0, 0>>, 1, 1))>>, free |-> <<>>],
     [set |-> <<>>, free |-> <<Managed(0)>>]}
TeardownViews == {UserImageView(0), UserImageView(1)}

InitTeardown == InitWith({DefaultSize}, {FDen}, {2})

PaintBeforeTeardown ==
    /\ FrameSubmitted
    /\ \E index \in 0 .. (Len(framebuffers) - 1), delta \in TeardownDeltas :
          Paint(index, <<>>, delta)

\* the surface is rebuilt once at most before the teardown
ResizeBeforeTeardown ==
    /\ FrameSubmitted
    /\ generation = 0
    /\ \E swapchain \in Swapchains :
          UpdateSwapchain(1024, 768, swapchain, [format |-> DefaultFormat])

RegisterView ==
    /\ FrameSubmitted
    /\ \E image_view \in TeardownViews :
          RegisterUserTexture(image_view, UserSampler(0))

UnregisterFirst == FrameSubmitted /\ UnregisterUserTexture(User(0))

Teardown == FrameSubmitted /\ Destroy

NextTeardown ==
    \/ PaintBeforeTeardown \/ SubmitFrame \/ ResizeBeforeTeardown
    \/ RegisterView \/ UnregisterFirst \/ Teardown

SpecTeardown == InitTeardown /\ [][NextTeardown]_vars

\* the objects of update_texture the three drained tables hold
OwnedImages == {texture_images[h] : h \in DOMAIN texture_images}
OwnedImageViews == {texture_image_views[h] : h \in DOMAIN texture_image_views}
OwnedAllocations == {texture_allocations[h] : h \in DOMAIN texture_allocations}

\* position in the calls of destroy() of destroy_descriptor_pool: the calls
\* up to it are about the objects of new and update_swapchain, the calls
\* after it about the objects of update_texture
PoolDestroyedAt(calls) == Min(CallsAt(calls, {"destroy_descriptor_pool"}) \cup {Len(calls) + 1})

\* C23: destroy() destroys or frees, exactly once each, every object the
\* instance holds: the slot buffers and their allocations, the image views,
\* framebuffers, render pass and pipeline of the surface, the sampler, the
\* layouts, the descriptor pool (and with it every descriptor set), and the
\* image, view and allocation of every managed record.  It destroys nothing
\* else, and afterwards nothing the instance created is live: no image,
\* view or allocation of update_texture, no staging buffer, command pool or
\* fence.
C23_DestroyReleasesOwned ==
    [][last_call'.op = "destroy" =>
       LET calls == device_calls'
           p     == PoolDestroyedAt(calls)
           owned == live_fixed \cup SurfaceObjects
           tex(op, t) == {i \in (p + 1) .. Len(calls) :
                             calls[i].op = op /\ calls[i].obj = t}
       IN  /\ p <= Len(calls)
           /\ live_surface = SurfaceObjects
           /\ \A o \in owned :
                 Cardinality({i \in 1 .. p : calls[i].obj = o}) = 1
           /\ \A i \in 1 .. p : calls[i].obj \in owned
           /\ \A t \in OwnedImages : Cardinality(tex("destroy_image", t)) = 1
           /\ \A t \in OwnedImageViews : Cardinality(tex("destroy_image_view", t)) = 1
           /\ \A t \in OwnedAllocations : Cardinality(tex("free", t)) = 1
           /\ \A i \in (p + 1) .. Len(calls) :
                 \/ calls[i].op = "destroy_image" /\ calls[i].obj \in OwnedImages
                 \/ calls[i].op = "destroy_image_view" /\ calls[i].obj \in OwnedImageViews
                 \/ calls[i].op = "free" /\ calls[i].obj \in OwnedAllocations
           /\ live_fixed' = {}
           /\ live_surface' = {}
           /\ pool_sets' = {}
           /\ vertex_buffers' = 0 /\ index_buffers' = 0
           /\ texture_images' = EmptyMap
           /\ texture_image_views' = EmptyMap
           /\ texture_allocations' = EmptyMap
           /\ (DOMAIN image_owner') \cap OwnedImages = {}
           /\ live_image_views' \cap OwnedImageViews = {}
           /\ live_allocations' \cap OwnedAllocations = {}
           /\ DOMAIN image_owner' = {}
           /\ live_image_views' = {}
           /\ live_allocations' = {}
           /\ live_staging' = 0 /\ live_cmd_pools' = 0 /\ live_fences' = 0
           /\ ~panicked']_vars

\* every op of the model that destroys or frees something
AllDestroyOps ==
    {"destroy_image", "destroy_image_view", "free", "destroy_buffer",
     "free_staging", "destroy_command_pool", "destroy_fence",
     "free_descriptor_sets", "destroy_render_pass", "destroy_pipeline",
     "destroy_framebuffer", "destroy_sampler", "destroy_pipeline_layout",
     "destroy_descriptor_set_layout", "destroy_descriptor_pool",
     "destroy_shader_module"}

\* C24: no operation destroys an image view or a sampler of the caller.
\* register_user_texture destroys nothing; unregister_user_texture only
\* frees the descriptor set of the slot; paint only destroys objects of
\* update_texture; update_swapchain and destroy() only destroy objects the
\* backend created and holds, or shader modules the call itself created.
C24_CallerObjectsNeverDestroyed ==
    [][LET calls    == device_calls'
           destroys == CallsAt(calls, AllDestroyOps)
           p        == PoolDestroyedAt(calls)
       IN  /\ last_call'.op = "register_user_texture" => destroys = {}
           /\ last_call'.op = "unregister_user_texture" =>
                 \A i \in destroys :
                    /\ calls[i].op = "free_descriptor_sets"
                    /\ Some(calls[i].obj) \in Range(user_textures)
           /\ last_call'.op = "paint" =>
                 \A i \in destroys :
                    /\ calls[i].op \in {"destroy_image", "destroy_image_view", "free",
                                        "destroy_buffer", "free_staging",
                                        "destroy_command_pool", "destroy_fence"}
                    /\ calls[i].op = "destroy_image_view" =>
                          \/ calls[i].obj \in live_image_views
                          \/ \E j \in 1 .. (i - 1) :
                                /\ calls[j].op = "create_image_view"
                                /\ calls[j].obj = calls[i].obj
           /\ last_call'.op = "update_swapchain" =>
                 \A i \in destroys :
                    \/ calls[i].obj \in live_surface
                    \/ /\ calls[i].op = "destroy_shader_module"
                       /\ \E j \in 1 .. (i - 1) :
                             /\ calls[j].op = "create_shader_module"
                             /\ calls[j].obj = calls[i].obj
           /\ last_call'.op = "destroy" =>
                 /\ \A i \in 1 .. p : calls[i].obj \in live_surface \cup live_fixed
                 /\ \A i \in (p + 1) .. Len(calls) :
                       calls[i].op = "destroy_image_view" =>
                          calls[i].obj \in live_image_views]_vars

\* C24 witness: destroy() ran while a slot of the user texture table holds
\* the descriptor set of a caller's image view, after a slot was unregistered
C24_Witness ==
    /\ last_call.op = "destroy"
    /\ Len(user_textures) = 2
    /\ user_textures[1] = None
    /\ user_textures[2] # None
    /\ CallsAt(device_calls, {"destroy_image_view"}) # {}


-----------------------------------------------------------------------------
(* One draw per primitive, and the records of the scenario (SpecManaged) *)

\* the meshes of a list that paint does not skip, in the order of the list
DrawableSeq(meshes) ==
    SelectSeq(meshes, LAMBDA m : ~IsEmptyMesh(m) /\ ~MissingUserSlot(m))

\* the 4-vertex, 6-index quad clipped to the whole 800 x 600 surface
Quad(h) == Mesh(FullClip, h, 4, 6)

\* C25: a paint that returns records one draw_indexed per non-empty mesh
\* whose handle resolves, in list order, with the mesh's number of indices
\* as index count and one instance.  A no-offset set of a handle without a
\* record raises the number of records by one; a quad with the 800 x 600
\* clip rectangle at scale 1.0 gives one draw with index count 6 and the
\* scissor (0,0)-(800,600); the free of the only record leaves no record.
C25_OneDrawPerPrimitive ==
    [][(last_call'.op = "paint" /\ last_call'.panic = None) =>
       LET meshes   == last_call'.args.clipped_meshes
           delta    == last_call'.args.textures_delta
           draws    == SelectSeq(cmds', LAMBDA c : c.op = "draw_indexed")
           scissors == SelectSeq(cmds', LAMBDA c : c.op = "set_scissor")
           drawn    == DrawableSeq(meshes)
       IN  /\ Len(draws) = Len(drawn)
           /\ \A k \in 1 .. Len(draws) :
                 /\ draws[k].index_count = drawn[k].indices
                 /\ draws[k].instance_count = 1
           /\ \A h \in ManagedIds :
                 (/\ Len(delta.set) = 1
                  /\ delta.set[1].id = h
                  /\ delta.set[1].delta.pos = None
                  /\ delta.free = <<>>
                  /\ InNoTable(h))
                 => /\ Cardinality(DOMAIN texture_images')
                          = Cardinality(DOMAIN texture_images) + 1
                    /\ Cardinality(DOMAIN texture_desc_sets')
                          = Cardinality(DOMAIN texture_desc_sets) + 1
                    /\ InEveryTable(h)'
           /\ \A h \in ManagedIds :
                 (/\ meshes = <<Quad(h)>>
                  /\ physical_width = 800 /\ physical_height = 600
                  /\ scale_factor = FDen)
                 => /\ Len(draws) = 1
                    /\ draws[1].index_count = 6
                    /\ scissors = << [op |-> "set_scissor",
                                      rect |-> [x |-> 0, y |-> 0,
                                                width |-> 800, height |-> 600]] >>
           /\ \A h \in ManagedIds :
                 (/\ delta.set = <<>>
                  /\ delta.free = <<h>>
                  /\ DOMAIN texture_images = {h})
                 => /\ DOMAIN texture_images' = {}
                    /\ \A g \in ManagedIds : InNoTable(g)']_vars

\* C25 witness: the handle was set by an earlier paint, and the last paint
\* drew one quad with it, index count 6, and freed it: no record is left
C25_Witness ==
    /\ last_call.op = "paint"
    /\ last_call.panic = None
    /\ last_call.args.clipped_meshes = <<Quad(Managed(0))>>
    /\ last_call.args.textures_delta = [set |-> <<>>, free |-> <<Managed(0)>>]
    /\ Len(Draws) = 1
    /\ Draws[1].index_count = 6
    /\ Scissors[1].rect = [x |-> 0, y |-> 0, width |-> 800, height |-> 600]
    /\ texture_history[Managed(0)] = "freed"
    /\ DOMAIN texture_images = {}

-----------------------------------------------------------------------------
(* SpecPatch: set entries with and without a placement offset, on two      *)
(* handles, with delta extents that differ from the extent of the record.  *)

PatchEntries ==
    {SetEntry(Managed(0), ImageDelta(None, 4, 4)),
     SetEntry(Managed(1), ImageDelta(None, 2, 2)),
     SetEntry(Managed(0), ImageDelta(<<1, 2>>, 2, 1)),
     SetEntry(Managed(0), ImageDelta(<<0, 0>>, 4, 4)),
     SetEntry(Managed(1), ImageDelta(<<0, 0>>, 1, 1))}
PatchDeltas ==
    {[set |-> s, free |-> f] : s \in SeqsUpTo(PatchEntries, MaxSetEntries),
                               f \in {<<>>, <<Managed(0)>>}}

InitPatch == InitWith({DefaultSize}, {FDen}, {1})

PaintPatch ==
    /\ FrameSubmitted
    /\ \E delta \in PatchDeltas : Paint(0, <<>>, delta)

NextPatch == PaintPatch \/ SubmitFrame

SpecPatch == InitPatch /\ [][NextPatch]_vars

\* positions of the entries of a set list that update_texture applies as a
\* patch: the entry has an offset and its handle has a record when the entry
\* is reached, from before the paint or from an earlier entry of the list
PatchPositions(set, known) ==
    {k \in 1 .. Len(set) :
        /\ set[k].delta.pos # None
        /\ \/ set[k].id \in known
           \/ \E j \in 1 .. (k - 1) :
                 set[j].id = set[k].id /\ set[j].delta.pos = None}

\* the calls that destroy, free or reuse something a submitted command
\* buffer may still be using
ReleasingOps ==
    {"destroy_image", "destroy_image_view", "free", "destroy_buffer",
     "free_staging", "destroy_command_pool", "destroy_fence",
     "reset_command_pool", "reset_fences", "queue_submit"}

\* the fence of the submit at position i is waited for later in the calls,
\* and nothing is released or reused in between
FenceWaited(calls, i) ==
    \E j \in (i + 1) .. Len(calls) :
        /\ calls[j].op = "wait_for_fences"
        /\ calls[j].obj = calls[i].obj
        /\ \A k \in (i + 1) .. (j - 1) : calls[k].op \notin ReleasingOps

\* C26: texture-delta application is synchronous.  In the calls of a paint,
\* every queue_submit of update_texture is followed by wait_for_fences on
\* the fence it was submitted with, before the staging buffer, the temporary
\* image, the command pool or the fence is destroyed or reset and before
\* update_texture ends, on the creation path and on the patch path.
C26_UpdateTextureSynchronous ==
    last_call.op = "paint" =>
        \A i \in CallsAt(device_calls, {"queue_submit"}) :
            FenceWaited(device_calls, i)

\* C26 witness: a patch, which submits the upload of the temporary image
\* and then the blit with the same fence, and destroys the fence after both
C26_Witness ==
    /\ last_call.op = "paint"
    /\ last_call.panic = None
    /\ Cardinality(CallsAt(device_calls, {"queue_submit"})) = 2
    /\ Cardinality(CallsAt(device_calls, {"wait_for_fences"})) = 2
    /\ CallsAt(device_calls, {"blit_image"}) # {}
    /\ \E i \in CallsAt(device_calls, {"destroy_fence"}) :
          \A j \in CallsAt(device_calls, {"queue_submit"}) : j < i

-----------------------------------------------------------------------------
(* Patches of existing records (SpecPatch) *)

\* the temporary image created at position i of the calls is destroyed
\* later in the calls, with its view and its allocation
TemporaryDestroyed(calls, i) ==
    LET t == calls[i].obj
    IN  /\ \E j \in CallsAt(calls, {"destroy_image"}) : j > i /\ calls[j].obj = t
        /\ \E j \in CallsAt(calls, {"destroy_image_view"}) : j > i /\ calls[j].obj = t
        /\ \E j \in CallsAt(calls, {"free"}) : j > i /\ calls[j].obj = t

\* C28: a set entry with an offset for a handle that has a record is a patch
\* in place.  After a paint all of whose set entries are such entries, and
\* that frees nothing, every handle maps to the same image, view, allocation
\* and descriptor set as before, the tables have the same keys, the stored
\* info of the handles that were not patched is unchanged, and the image,
\* view and allocation created for each entry have been destroyed: the live
\* images, views, allocations and descriptor sets are those of before.
C28_PatchInPlace ==
    [][(last_call'.op = "paint" /\ last_call'.panic = None) =>
       LET delta   == last_call'.args.textures_delta
           patched == {delta.set[k].id : k \in 1 .. Len(delta.set)}
       IN  (/\ delta.set # <<>>
            /\ delta.free = <<>>
            /\ \A k \in 1 .. Len(delta.set) :
                  /\ delta.set[k].delta.pos # None
                  /\ delta.set[k].id \in DOMAIN texture_images)
           => /\ texture_images' = texture_images
              /\ texture_image_views' = texture_image_views
              /\ texture_allocations' = texture_allocations
              /\ texture_desc_sets' = texture_desc_sets
              /\ DOMAIN texture_image_infos' = DOMAIN texture_image_infos
              /\ \A h \in (DOMAIN texture_image_infos) \ patched :
                    texture_image_infos'[h] = texture_image_infos[h]
              /\ image_owner' = image_owner
              /\ live_image_views' = live_image_views
              /\ live_allocations' = live_allocations
              /\ pool_sets' = pool_sets
              /\ Cardinality(CallsAt(device_calls', {"create_image"})) = Len(delta.set)
              /\ \A i \in CallsAt(device_calls', {"create_image"}) :
                    /\ device_calls'[i].obj \notin DOMAIN image_owner
                    /\ TemporaryDestroyed(device_calls', i)]_vars

\* C28 witness: the record of handle 0 was patched at (1,2) while handle 1
\* has a record of its own
C28_Witness ==
    /\ last_call.op = "paint"
    /\ last_call.panic = None
    /\ last_call.args.textures_delta
          = [set |-> <<SetEntry(Managed(0), ImageDelta(<<1, 2>>, 2, 1))>>,
             free |-> <<>>]
    /\ DOMAIN texture_images = {Managed(0), Managed(1)}
    /\ CallsAt(device_calls, {"blit_image"}) # {}
    /\ CallsAt(device_calls, {"destroy_image"}) # {}


\* the set entry and the record extent behind the k-th blit of a paint
BlitOfEntry(calls, set, known, n) ==
    [call  |-> calls[SortedSeq(CallsAt(calls, {"blit_image"}))[n]],
     entry |-> set[SortedSeq(PatchPositions(set, known))[n]]]

\* width and height of the region between two corners
RegionSize(offsets) ==
    <<offsets[2][1] - offsets[1][1], offsets[2][2] - offsets[1][2],
      offsets[2][3] - offsets[1][3]>>

\* C29: the copy of a patch is one-to-one.  A paint records one blit per
\* patch entry, in list order; its source region is (0,0)-(w,h), w x h the
\* extent of the entry's sub-image, its destination region is
\* (pos)-(pos + (w,h)) in the existing image of the handle, both regions
\* have the same size, the destination is the image the tables hold for the
\* handle and the source is an image created by this paint.
C29_BlitOneToOne ==
    [][(last_call'.op = "paint" /\ last_call'.panic = None) =>
       LET set     == last_call'.args.textures_delta.set
           known   == DOMAIN texture_images
           patches == PatchPositions(set, known)
           blits   == CallsAt(device_calls', {"blit_image"})
       IN  /\ Cardinality(blits) = Cardinality(patches)
           /\ \A n \in 1 .. Cardinality(patches) :
                 LET b     == BlitOfEntry(device_calls', set, known, n)
                     w     == b.entry.delta.width
                     h     == b.entry.delta.height
                     pos   == b.entry.delta.pos
                 IN  /\ b.call.src_offsets = << <<0, 0, 0>>, <<w, h, 1>> >>
                     /\ b.call.dst_offsets
                           = << <<pos[1], pos[2], 0>>, <<pos[1] + w, pos[2] + h, 1>> >>
                     /\ RegionSize(b.call.src_offsets) = RegionSize(b.call.dst_offsets)
                     /\ (\A j \in 1 .. Len(set) : set[j].id = b.entry.id
                                                     => set[j].delta.pos # None)
                        => b.call.obj = texture_images[b.entry.id]
                     /\ b.call.src # b.call.obj
                     /\ b.call.src \notin DOMAIN image_owner]_vars

\* C29 witness: a 2 x 1 sub-image was copied to (1,2)-(3,3) of a record
\* that was created 4 x 4
C29_Witness ==
    /\ last_call.op = "paint"
    /\ last_call.panic = None
    /\ last_call.args.textures_delta.set
          = <<SetEntry(Managed(0), ImageDelta(<<1, 2>>, 2, 1))>>
    /\ texture_history[Managed(0)] = "set"
    /\ \E i \in CallsAt(device_calls, {"blit_image"}) :
          /\ device_calls[i].src_offsets = << <<0, 0, 0>>, <<2, 1, 1>> >>
          /\ device_calls[i].dst_offsets = << <<1, 2, 0>>, <<3, 3, 1>> >>


\* the layouts of the images after one call of the timeline: a created image
\* starts in UNDEFINED, a barrier leaves its image in new_layout
LayoutsAfter(states, call) ==
    IF call.op = "create_image" THEN MapInsert(states, call.obj, "UNDEFINED")
    ELSE IF call.op = "destroy_image" THEN MapRemove(states, call.obj)
    ELSE ExecuteCommand(states, call)

\* every barrier of calls[i..] names as old layout the layout its image has
\* when the barrier executes, states being the layouts before calls[i]
RECURSIVE BarriersNameLayout(_, _, _)
BarriersNameLayout(states, calls, i) ==
    IF i > Len(calls) THEN TRUE
    ELSE /\ calls[i].op = "pipeline_barrier"
            => /\ calls[i].obj \in DOMAIN states
               /\ calls[i].old_layout = states[calls[i].obj]
         /\ BarriersNameLayout(LayoutsAfter(states, calls[i]), calls, i + 1)

\* the calls of update_texture in the timeline of a paint: those before the
\* render pass begins
UpdateTextureCalls(calls) ==
    SelectSeq(calls, LAMBDA c : c.op \in {"create_image", "destroy_image",
                                          "pipeline_barrier"})

\* C30: during a patch the existing image goes from shader-read to
\* transfer-write and back.  Every barrier update_texture records names as
\* old layout the layout its image has at that point; no barrier discards
\* the contents of an image that existed before the paint, that is, none
\* names UNDEFINED as the old layout of such an image; and after the paint
\* every image the tables hold is in SHADER_READ_ONLY_OPTIMAL.
C30_BarriersKeepContents ==
    [][(last_call'.op = "paint" /\ last_call'.panic = None) =>
       LET calls == UpdateTextureCalls(device_calls')
       IN  /\ BarriersNameLayout(image_state, calls, 1)
           /\ \A i \in CallsAt(calls, {"pipeline_barrier"}) :
                 calls[i].obj \in DOMAIN image_state
                    => calls[i].old_layout # "UNDEFINED"
           /\ \A h \in DOMAIN texture_images' :
                 image_state'[texture_images'[h]] = "SHADER_READ_ONLY_OPTIMAL"]_vars

-----------------------------------------------------------------------------
(* SpecFailure: construction, paint and update_swapchain on a device whose *)
(* calls of one kind return Err.                                           *)

\* the kinds of fallible creation call of Integration::new
NewCreateOps ==
    {"create_descriptor_pool", "create_descriptor_set_layout", "create_render_pass",
     "create_pipeline_layout", "create_shader_module", "create_graphics_pipelines",
     "create_sampler", "create_image_view", "create_framebuffer", "create_buffer",
     "allocate"}

\* the kinds of fallible creation and allocation call of update_texture
TextureCreateOps ==
    {"create_command_pool", "allocate_command_buffers", "create_fence",
     "create_buffer", "allocate_staging", "create_image", "allocate",
     "create_image_view", "allocate_descriptor_sets"}

\* Integration::new on a device whose calls of kind op fail: the creations
\* before the first such call are made, expect() panics at it and no
\* instance is returned; what was created stays live
FailedConstruction(op, n) ==
    LET all  == NewCalls(n)
        done == SubSeq(all, 1, Min(CallsAt(all, {op})) - 1)
    IN  /\ physical_width = DefaultSize[1] /\ physical_height = DefaultSize[2]
        /\ scale_factor = FDen
        /\ generation = 0
        /\ render_pass = None
        /\ pipeline = None
        /\ framebuffer_color_image_views = <<>>
        /\ framebuffers = <<>>
        /\ vertex_buffers = 0
        /\ index_buffers = 0
        /\ descriptor_set_layouts = 0
        /\ live_fixed = {o \in LiveAfterCalls(done) : o.kind \notin SurfaceKinds}
        /\ live_surface = {o \in LiveAfterCalls(done) : o.kind \in SurfaceKinds}
        /\ texture_desc_sets = EmptyMap
        /\ texture_images = EmptyMap
        /\ texture_image_infos = EmptyMap
        /\ texture_allocations = EmptyMap
        /\ texture_image_views = EmptyMap
        /\ user_textures = <<>>
        /\ image_owner = EmptyMap
        /\ live_image_views = {}
        /\ live_allocations = {}
        /\ pool_sets = {}
        /\ live_staging = 0
        /\ live_cmd_pools = 0
        /\ live_fences = 0
        /\ image_state = EmptyMap
        /\ device_fault = Some(op)
        /\ cmds = <<>>
        /\ v_written = <<>>
        /\ i_written = <<>>
        /\ last_call = Call("new", None, None, <<>>, Some(op))
        /\ panicked = TRUE
        /\ reuse_of = None
        /\ texture_history = [h \in ManagedIds |-> "unseen"]
        /\ known_at_draw = {}
        /\ device_calls = done \o << FailedCall(op) >>

InitFailure ==
    \/ InitWith({DefaultSize}, {FDen}, {1, 2})
    \/ \E op \in NewCreateOps, n \in {1, 2} : FailedConstruction(op, n)

\* the device starts to fail every call of one kind, for instance when it
\* runs out of memory
DeviceFails ==
    /\ ~panicked
    /\ device_fault = None
    /\ \E op \in TextureCreateOps \cup SurfaceCreateOps : device_fault' = Some(op)
    /\ UNCHANGED <<surface_vars, live_fixed, descriptor_set_layouts, cache_vars,
                   pool_sets, user_textures,
                   cmds, v_written, i_written, last_call, panicked, reuse_of,
                   texture_history, known_at_draw, device_calls>>

FailureDeltas ==
    {NoDelta,
     [set |-> <<SetEntry(Managed(0), ImageDelta(None, 2, 2))>>, free |-> <<>>],
     [set |-> <<SetEntry(Managed(0), ImageDelta(<<0, 0>>, 1, 1))>>, free |-> <<>>],
     [set |-> <<>>, free |-> <<Managed(0)>>]}

PaintFailure ==
    /\ FrameSubmitted
    /\ \E index \in 0 .. (Len(framebuffers) - 1), delta \in FailureDeltas :
          Paint(index, <<>>, delta)

\* the surface is rebuilt once at most, on a device that fails or not
ResizeFailure ==
    /\ FrameSubmitted
    /\ generation = 0
    /\ \E swapchain \in Swapchains, surface_format \in SurfaceFormats :
          UpdateSwapchain(DefaultSize[1], DefaultSize[2], swapchain, surface_format)

\* the first user texture is registered, on a device that fails or not
RegisterFailure ==
    /\ FrameSubmitted
    /\ user_textures = <<>>
    /\ RegisterUserTexture(UserImageView(0), UserSampler(0))

NextFailure ==
    \/ DeviceFails \/ PaintFailure \/ ResizeFailure \/ RegisterFailure
    \/ SubmitFrame

SpecFailure == InitFailure /\ [][NextFailure]_vars

\* the operations that create GPU objects or allocate memory;
\* register_user_texture allocates a descriptor set (lines 1459-1467)
CreatingOperations == {"new", "paint", "update_swapchain", "register_user_texture"}

\* C27: a failed allocation or creation inside construction, texture-delta
\* application or update_swapchain is fatal (and so is the failed
\* allocation of register_user_texture).  A call that returned Err is
\* the last call its operation makes, and the operation panics with it
\* instead of returning; a construction that returns has created every
\* object of the instance; and on a device whose calls of one kind fail, an
\* operation that returns normally has made no call of that kind.
C27_CreationFailureFatal ==
    /\ [](/\ \A i \in 1 .. Len(device_calls) :
               IsFailed(device_calls[i])
                  => /\ i = Len(device_calls)
                     /\ panicked
                     /\ last_call.op \in CreatingOperations
                     /\ last_call.panic = Some(device_calls[i].op)
          /\ (last_call.op = "new" /\ last_call.panic = None)
                => live_fixed \cup live_surface
                      = LiveAfterCalls(NewCalls(Len(framebuffers))))
    /\ [][(device_fault # None /\ last_call'.op \in CreatingOperations)
             => \/ /\ last_call'.panic = None
                   /\ \A i \in 1 .. Len(device_calls') :
                         device_calls'[i].op # device_fault[1]
                \/ /\ last_call'.panic # None
                   /\ panicked']_vars

\* C27 witness: the image of a set entry was created and allocated, the
\* creation of its view failed, and paint panicked there
C27_Witness ==
    /\ last_call.op = "paint"
    /\ last_call.panic = Some("create_image_view")
    /\ panicked
    /\ CallsAt(device_calls, {"create_image"}) # {}
    /\ IsFailed(device_calls[Len(device_calls)])
    /\ device_calls[Len(device_calls)].op = "create_image_view"

-----------------------------------------------------------------------------
(* unregister_user_texture with an index outside the table (SpecRegistry) *)

\* C38: unregister_user_texture is never fatal for a User handle.  Called
\* with an index at or beyond the length of user_textures, also when the
\* table is empty, it returns normally and leaves the table and the pool's
\* descriptor sets as they were.
C38_UnregisterNeverFatal ==
    [][(/\ last_call'.op = "unregister_user_texture"
        /\ last_call'.args.kind = "User")
          => /\ last_call'.panic = None
             /\ ~panicked'
             /\ last_call'.args.id >= Len(user_textures)
                   => /\ user_textures' = user_textures
                      /\ pool_sets' = pool_sets]_vars

-----------------------------------------------------------------------------
(* The key sets of the five tables (Spec) *)

\* the handles for which a no-offset set entry has been applied and no free
\* entry since
SetAndNotFreed == {h \in ManagedIds : texture_history[h] \in {"set", "reset"}}

\* C33: between operations the five per-handle tables have the same key
\* set, and a handle is a key iff a no-offset set entry has been applied for
\* it with no free entry after it.
C33_TablesShareKeys ==
    ~panicked =>
        /\ DOMAIN texture_desc_sets = SetAndNotFreed
        /\ DOMAIN texture_images = SetAndNotFreed
        /\ DOMAIN texture_image_infos = SetAndNotFreed
        /\ DOMAIN texture_allocations = SetAndNotFreed
        /\ DOMAIN texture_image_views = SetAndNotFreed

-----------------------------------------------------------------------------
(* The stored image info of a record (SpecPatch) *)

\* the extent the image t was created with by the last operation: the
\* extent of the upload that filled it (lines 857-861 and 940-955)
CreatedExtent(calls, t) ==
    {calls[i].extent : i \in {j \in CallsAt(calls, {"copy_buffer_to_image"}) :
                                 calls[j].obj = t}}

\* C34: the stored info of a handle describes the image registered for the
\* handle.  When a paint registers an image for a handle, the stored extent
\* is the extent that image was created with; while the handle keeps its
\* image, whatever is patched into it, the stored info does not change.
C34_InfoDescribesImage ==
    [][(last_call'.op = "paint" /\ last_call'.panic = None) =>
       \A h \in DOMAIN texture_images' :
          /\ h \in DOMAIN texture_image_infos'
          /\ IF h \in DOMAIN texture_images /\ texture_images'[h] = texture_images[h]
             THEN /\ h \in DOMAIN texture_image_infos
                  /\ texture_image_infos'[h] = texture_image_infos[h]
             ELSE CreatedExtent(device_calls', texture_images'[h])
                     = {<<texture_image_infos'[h].width,
                          texture_image_infos'[h].height, 1>>}]_vars

-----------------------------------------------------------------------------
(* The temporaries of update_texture (SpecPatch) *)

\* the values a table holds
Held(table) == {table[h] : h \in DOMAIN table}

\* C35: on every path by which update_texture returns, the temporaries it
\* created are released.  After a paint that returns no staging buffer,
\* command pool or fence of update_texture is live, and every live image,
\* view and allocation is the one stored in the record of a handle.
C35_TemporariesReleased ==
    (last_call.op = "paint" /\ last_call.panic = None) =>
        /\ live_staging = 0
        /\ live_cmd_pools = 0
        /\ live_fences = 0
        /\ DOMAIN image_owner = Held(texture_images)
        /\ live_image_views = Held(texture_image_views)
        /\ live_allocations = Held(texture_allocations)

-----------------------------------------------------------------------------
(* SpecEmpty: frames that mix meshes to draw with meshes whose vertex or   *)
(* index list is empty, some of them on handles that do not resolve.       *)

EmptyMeshes ==
    {Mesh(FullClip, Managed(0), 4, 6), Mesh(FullClip, Managed(0), 3, 3),
     Mesh(FullClip, Managed(1), 0, 6), Mesh(FullClip, Managed(1), 4, 0),
     Mesh(FullClip, User(0), 0, 0)}

EmptyDeltas ==
    {NoDelta,
     [set |-> <<SetEntry(Managed(0), ImageDelta(None, 2, 2))>>, free |-> <<>>]}

InitEmpty == InitWith({DefaultSize}, {FDen}, {1})

PaintEmpty ==
    /\ FrameSubmitted
    /\ \E meshes \in SeqsUpTo(EmptyMeshes, MaxPrims), delta \in EmptyDeltas :
          Paint(0, meshes, delta)

NextEmpty == PaintEmpty \/ SubmitFrame

SpecEmpty == InitEmpty /\ [][NextEmpty]_vars

\* positions of the meshes of a list that have a vertex and an index, in
\* increasing order
NonEmptyPositions(meshes) ==
    SortedSeq({k \in 1 .. Len(meshes) :
                  meshes[k].vertices # 0 /\ meshes[k].indices # 0})

\* the commands of a kind among the recorded commands
Recorded(commands, op) == SelectSeq(commands, LAMBDA c : c.op = op)

RECURSIVE SumOver(_, _, _)
\* sum of f[seq[1]] .. f[seq[n]]
SumOver(f, seq, n) == IF n = 0 THEN 0 ELSE f[seq[n]] + SumOver(f, seq, n - 1)

\* C32: a mesh whose vertex list or index list is empty is skipped
\* entirely.  A paint that returns has bound one descriptor set, written one
\* vertex range and one index range and recorded one scissor and one draw
\* per mesh that has vertices and indices, each from that mesh and in list
\* order, with the bases the non-empty meshes before it add up to; nothing
\* is logged for a skipped mesh; and a paint panics on an unknown handle
\* only if a mesh with vertices and indices names one.
C32_EmptyPrimitiveSkipped ==
    last_call.op = "paint" =>
        LET meshes == last_call.args.clipped_meshes
            drawn  == NonEmptyPositions(meshes)
            verts  == [k \in 1 .. Len(meshes) |-> meshes[k].vertices]
            inds   == [k \in 1 .. Len(meshes) |-> meshes[k].indices]
            draws  == Recorded(cmds, "draw_indexed")
        IN  /\ last_call.panic = None
               => /\ Len(Recorded(cmds, "bind_descriptor_sets")) = Len(drawn)
                  /\ Len(Recorded(cmds, "set_scissor")) = Len(drawn)
                  /\ Len(draws) = Len(drawn)
                  /\ Len(v_written) = Len(drawn)
                  /\ Len(i_written) = Len(drawn)
                  /\ last_call.log = <<>>
                  /\ \A n \in 1 .. Len(drawn) :
                        /\ v_written[n].src = drawn[n]
                        /\ i_written[n].src = drawn[n]
                        /\ v_written[n].len = verts[drawn[n]]
                        /\ i_written[n].len = inds[drawn[n]]
                        /\ draws[n].index_count = inds[drawn[n]]
                        /\ draws[n].vertex_offset = SumOver(verts, drawn, n - 1)
                        /\ draws[n].first_index = SumOver(inds, drawn, n - 1)
            /\ last_call.panic # None
               => \E k \in 1 .. Len(meshes) :
                     /\ meshes[k].vertices # 0
                     /\ meshes[k].indices # 0
                     /\ meshes[k].texture_id \notin known_at_draw

\* C32 witness: a paint returned although its list holds meshes without
\* indices or without vertices on a handle that has no record and on a user
\* slot that was never allocated, between two meshes that were drawn
C32_Witness ==
    /\ last_call.op = "paint"
    /\ last_call.panic = None
    /\ last_call.args.clipped_meshes
          = << Mesh(FullClip, Managed(0), 4, 6), Mesh(FullClip, Managed(1), 4, 0),
               Mesh(FullClip, Managed(0), 3, 3) >>
    /\ Managed(1) \notin known_at_draw
    /\ Len(Recorded(cmds, "draw_indexed")) = 2
    /\ Recorded(cmds, "draw_indexed")[2].vertex_offset = 4
    /\ Recorded(cmds, "draw_indexed")[2].first_index = 6

-----------------------------------------------------------------------------
(* Write cursors and draw bases (SpecDraw) *)

\* positions of the meshes of a list that paint draws: those with vertices
\* and indices whose handle resolves
DrawnPositions(meshes) ==
    SortedSeq({k \in 1 .. Len(meshes) :
                  ~IsEmptyMesh(meshes[k]) /\ ~MissingUserSlot(meshes[k])})

\* C31: in every paint the write cursors start at offset zero and each draw
\* uses the cumulative bases of the meshes drawn before it in this call.
\* For the n-th mesh drawn by a paint that returns, the vertex and index
\* ranges written start at the byte offsets VertexSize and IndexSize times
\* the numbers of vertices and indices of the meshes drawn before it (zero
\* for the first), the draw's vertex_offset and first_index are those
\* numbers, and the ranges hold that mesh's vertices and indices; skipped
\* meshes add nothing.
C31_CursorsAndBases ==
    (last_call.op = "paint" /\ last_call.panic = None) =>
        LET meshes == last_call.args.clipped_meshes
            drawn  == DrawnPositions(meshes)
            verts  == [k \in 1 .. Len(meshes) |-> meshes[k].vertices]
            inds   == [k \in 1 .. Len(meshes) |-> meshes[k].indices]
            draws  == Recorded(cmds, "draw_indexed")
        IN  /\ Len(draws) = Len(drawn)
            /\ Len(v_written) = Len(drawn)
            /\ Len(i_written) = Len(drawn)
            /\ \A n \in 1 .. Len(drawn) :
                  /\ draws[n].vertex_offset = SumOver(verts, drawn, n - 1)
                  /\ draws[n].first_index = SumOver(inds, drawn, n - 1)
                  /\ v_written[n].off = VertexSize * draws[n].vertex_offset
                  /\ i_written[n].off = IndexSize * draws[n].first_index
                  /\ v_written[n].src = drawn[n]
                  /\ i_written[n].src = drawn[n]
                  /\ v_written[n].len = verts[drawn[n]]
                  /\ i_written[n].len = draws[n].index_count
                  /\ i_written[n].len = inds[drawn[n]]
            /\ Len(drawn) > 0 => v_written[1].off = 0 /\ i_written[1].off = 0

\* C31 witness: a quad, a mesh of an unregistered slot that is skipped, and
\* a triangle drawn from vertex 4 and index 6
C31_Witness ==
    /\ last_call.op = "paint"
    /\ last_call.panic = None
    /\ Len(last_call.args.clipped_meshes) = 3
    /\ DrawnPositions(last_call.args.clipped_meshes) = <<1, 3>>
    /\ ~IsEmptyMesh(last_call.args.clipped_meshes[2])
    /\ Len(Recorded(cmds, "draw_indexed")) = 2
    /\ Recorded(cmds, "draw_indexed")[2].vertex_offset = 4
    /\ Recorded(cmds, "draw_indexed")[2].first_index = 6
    /\ v_written[2].off = 4 * VertexSize
    /\ i_written[2].off = 6 * IndexSize

-----------------------------------------------------------------------------
(* The fixed-function state of the pipeline (SpecSwapchain) *)

\* C36: the pipeline update_swapchain rebuilds has the fixed-function
\* configuration of the pipeline Integration::new built.  In every state the
\* pipeline of the instance has depth test and depth write disabled and the
\* vertex stride, vertex attributes, blend state and the rest of the
\* configuration of the first pipeline.
C36_PipelineConfigKept ==
    /\ pipeline.config.depth_test_enable = FALSE
    /\ pipeline.config.depth_write_enable = FALSE
    /\ pipeline.config.stride = NewPipelineConfig.stride
    /\ pipeline.config.attributes = NewPipelineConfig.attributes
    /\ pipeline.config.blend = NewPipelineConfig.blend
    /\ pipeline.config = NewPipelineConfig

-----------------------------------------------------------------------------
(* Textures freed by the frame that draws with them (SpecManaged) *)

\* the handles whose descriptor set, as the tables hold it when the draw
\* loop runs, is bound by a recorded command
BoundHandles(desc_sets, commands) ==
    {h \in DOMAIN desc_sets :
        \E k \in 1 .. Len(commands) :
            /\ commands[k].op = "bind_descriptor_sets"
            /\ commands[k].set = desc_sets[h]}

\* C37: no image or view of a managed texture is destroyed by a free entry
\* while a command buffer that binds the texture's descriptor set has not
\* finished executing.  The command buffer a paint records has not been
\* submitted when the paint returns, so the paint destroys no image or view
\* of a handle whose descriptor set its own commands bind.
C37_NoFreeWhileBound ==
    [][(last_call'.op = "paint" /\ last_call'.panic = None) =>
       LET at_draw == CacheAtDraw(CurrentCache, last_call'.args.textures_delta)
           bound   == BoundHandles(at_draw.desc_sets, cmds')
           after   == {i \in 1 .. Len(device_calls') :
                          \E j \in CallsAt(device_calls', {"end_render_pass"}) : j < i}
       IN  \A h \in bound :
              \A i \in after :
                 device_calls'[i].op \in {"destroy_image", "destroy_image_view"}
                    => /\ device_calls'[i].obj # at_draw.images[h]
                       /\ device_calls'[i].obj # at_draw.views[h]]_vars

====
